---- MODULE Spec2Model ----
(***************************************************************************)
(* A model of the efr command-line tools: the PlatformIO version scanners, *)
(* the board installer and `boards install` of efr-motorgo                 *)
(* (motorgo/board_install.py, motorgo/cli.py), the plugin listing and      *)
(* `plugins install` of efr-plugins (plugins/cli.py,                       *)
(* plugins/plugin_utils.py), the root dispatcher (efr/cli.py), and the     *)
(* repository cache, init and clone of efr-gh (gh/cli.py).                 *)
(*                                                                         *)
(* File names are sequences of tokens; a token stands for the text it      *)
(* names ("espressif32", "@", "latest", "1", ...), so that prefix matching *)
(* and splitting on "@" are computed on the name as the code computes them.*)
(***************************************************************************)
EXTENDS Integers, Sequences, FiniteSets, TLC

\* ------------------------------------------------------------------ bounds
\* Version numbers that may follow "@" in a directory name: "1" .. MaxVer.
MaxVer == 1
\* Directory entries under ~/.platformio/platforms and packages, in total.
MaxKids == 3
\* File names inside a variant directory: 1 .. MaxFiles.
MaxFiles == 1
\* Distinct file contents: 1 .. MaxContent.
MaxContent == 2
\* Calls made in a row when the copy functions are exercised on their own.
MaxCalls == 2
\* Entries of the plugin registry.
MaxRegistry == 2
\* Installed Python packages.
MaxPkgs == 2
\* Entry points registered under efr.plugins.
MaxEntries == 2
\* Pages of the repository listing of one organization.
MaxPages == 2
\* Calls of _get_all_repos in one process.
MaxRepoCalls == 3
\* Pieces of the URL of the remote `origin`.
MaxUrl == 3
\* Runs of `gh togprot` in a row.
MaxToggles == 2
\* Runs of `plugins init` in a row.
MaxInits == 2

\* --------------------------------------------------------------- constants
FRAMEWORK_NAME == "framework-arduinoespressif32"
PLATFORM_NAME == "espressif32"

VARIABLES
    packages,            \* ~/.platformio/packages: [exists, kids: name -> node]
    platforms,           \* ~/.platformio/platforms: [exists, kids: name -> node]
    source,              \* board_path: [variant: variants/<board>, json: <board>.json]
    framework_versions,  \* result of get_framework_versions: [state, keys, val]
    platform_versions,   \* result of get_platform_versions: [state, keys, val]
    all,                 \* install's --all
    force,               \* install's --force
    pc,                  \* where install is
    versions,            \* install's versions list, the part not yet looped over
    out,                 \* what click.echo / click.secho printed, in order
    calls,               \* the copy_*_files calls made, in order, with what each did
    answers,             \* what the two questionary prompts returned
    second,              \* is this the second run with the same inputs
    prev,                \* the file system and calls at the end of the first run
    plugin_registry,     \* the hosted registry document: entries [name, info], in order
    working_set,         \* pkg_resources.working_set: the installed project names
    installed_list,      \* list_plugins' installed_list
    uninstalled_list,    \* list_plugins' uninstalled_list
    is_installed,        \* the last is_plugin_installed call: [state, name, result]
    plugins_pc,          \* where the plugins command is
    plugins_out,         \* what the plugins command printed
    install_pc,          \* where `plugins install` is
    install_args,        \* its arguments: [plugin_name, upgrade, is_windows]
    script_file,         \* the temporary script file: "absent" or "present"
    install_did,         \* what `plugins install` did, in order: [op, arg]
    install_out,         \* what `plugins install` printed
    entry_points,        \* pkg_resources.iter_entry_points("efr.plugins"), in order
    to_load,             \* the entry points the loop of efr/cli.py has not reached
    root_commands,       \* cli.commands of the root group: [keys, val]
    root_pc,             \* where the efr process is
    dispatched,          \* the command object the root group invoked, if any
    boards_pc,           \* where `motorgo boards install` is
    boards_args,         \* its arguments: [board_name, custom_board_path given]
    board_index,         \* efr_board_index.json on the remote: the boards, in order
    board_repo,          \* what the boards repository (or the custom path) holds
    temp_dir,            \* the TemporaryDirectory: "none", "exists" or "cleaned"
    boards_did,          \* what `motorgo boards install` did, in order
    boards_out,          \* what `motorgo boards install` printed
    repo_list,           \* gh/cli.py's global repo_list: [none, repos]
    gh_remote,           \* the GitHub API: org -> the pages of its repository listing
    repo_calls,          \* the _get_all_repos calls made, in order, with what each did
    worktree,            \* the directory gh runs in: [is_repo, files, staged, commits]
    gh_pc,               \* where the gh command is
    gh_did,              \* the prompts asked and subprocesses run by gh, in order
    gh_out,              \* what the gh command printed
    origin,              \* the remote `origin` of the repository: [exists, url]
    togprot_did,         \* the git commands run by `gh togprot`, in order
    togprot_out,         \* what `gh togprot` printed
    plugin_parent,       \* the --path of `plugins init`: [exists, kids: dir -> files]
    newplugin_did,       \* what `plugins init` asked and the errors it got, in order
    newplugin_out        \* what `plugins init` printed

fsVars == <<packages, platforms, source>>
scanVars == <<framework_versions, platform_versions>>
runVars == <<all, force, pc, versions, out, calls, answers, second, prev>>
pluginVars == <<plugin_registry, working_set, installed_list, uninstalled_list,
                is_installed, plugins_pc, plugins_out>>
ipVars == <<install_pc, install_args, script_file, install_did, install_out>>
rootVars == <<entry_points, to_load, root_commands, root_pc, dispatched>>
boardsVars == <<boards_pc, boards_args, board_index, board_repo, temp_dir,
                boards_did, boards_out>>
repoVars == <<repo_list, gh_remote, repo_calls>>
gitVars == <<worktree, gh_pc, gh_did, gh_out>>
remoteVars == <<origin, togprot_did, togprot_out>>
newPluginVars == <<plugin_parent, newplugin_did, newplugin_out>>
\* The variables a group of actions leaves alone: those outside the motorgo
\* installer, outside the plugins listing, outside the plugins commands,
\* outside the root dispatcher, outside `boards install` and its installer,
\* outside the repository cache, outside the git commands of gh, outside
\* `gh togprot` and outside `plugins init`.
notMotorgo == <<pluginVars, ipVars, rootVars, boardsVars, repoVars, gitVars,
    remoteVars, newPluginVars>>
notPlugins == <<fsVars, scanVars, runVars, ipVars, rootVars, boardsVars, repoVars, gitVars,
    remoteVars, newPluginVars>>
notPluginCommands == <<fsVars, scanVars, runVars, rootVars, boardsVars, repoVars, gitVars,
    remoteVars, newPluginVars>>
notRoot == <<fsVars, scanVars, runVars, pluginVars, ipVars, boardsVars, repoVars, gitVars,
    remoteVars, newPluginVars>>
notBoards == <<pluginVars, ipVars, rootVars, repoVars, gitVars,
    remoteVars, newPluginVars>>
notRepos == <<fsVars, scanVars, runVars, pluginVars, ipVars, rootVars, boardsVars, gitVars,
    remoteVars, newPluginVars>>
notGit == <<fsVars, scanVars, runVars, pluginVars, ipVars, rootVars, boardsVars, repoVars,
    remoteVars, newPluginVars>>
notRemote == <<fsVars, scanVars, runVars, pluginVars, ipVars, rootVars, boardsVars, repoVars,
    gitVars, newPluginVars>>
notNewPlugin == <<fsVars, scanVars, runVars, pluginVars, ipVars, rootVars, boardsVars, repoVars,
    gitVars, remoteVars>>
vars == <<packages, platforms, source, framework_versions, platform_versions,
          all, force, pc, versions, out, calls, answers, second, prev,
          plugin_registry, working_set, installed_list, uninstalled_list,
          is_installed, plugins_pc, plugins_out,
          install_pc, install_args, script_file, install_did, install_out,
          entry_points, to_load, root_commands, root_pc, dispatched,
          boards_pc, boards_args, board_index, board_repo, temp_dir,
          boards_did, boards_out,
          repo_list, gh_remote, repo_calls,
          worktree, gh_pc, gh_did, gh_out,
          origin, togprot_did, togprot_out,
          plugin_parent, newplugin_did, newplugin_out>>

\* ------------------------------------------------------------- file system
\* A tree is the content of one directory: file -> content, 0 for no file.
Files == 1..MaxFiles
Contents == 1..MaxContent
Tree == [Files -> 0..MaxContent]
EmptyTree == [f \in Files |-> 0]
\* A directory entry that may be missing.
NoEntry == [exists |-> FALSE, files |-> EmptyTree]
DirEntry(t) == [exists |-> TRUE, files |-> t]

\* A child of packages: does it hold a variants directory, and variants/<board>.
PackageNode == [variants : BOOLEAN, board : {NoEntry} \cup {DirEntry(t) : t \in Tree}]
\* A child of platforms: does it hold a boards directory, and boards/<board>.json
\* (0 for no file).
PlatformNode == [boards : BOOLEAN, json : 0..MaxContent]
PlainPackage == [variants |-> FALSE, board |-> NoEntry]
PlainPlatform == [boards |-> FALSE, json |-> 0]

NoDir == [exists |-> FALSE, kids |-> <<>>]
NoSource == [variant |-> NoEntry, json |-> 0]
NoAnswer == [asked |-> FALSE, cancelled |-> FALSE, picked |-> {}]
NoPrev == [packages |-> NoDir, platforms |-> NoDir, calls |-> <<>>]

\* Nothing of install has run.
RunIdle ==
    /\ all = FALSE
    /\ force = FALSE
    /\ pc = "idle"
    /\ versions = <<>>
    /\ out = <<>>
    /\ calls = <<>>
    /\ answers = [framework |-> NoAnswer, platform |-> NoAnswer]
    /\ second = FALSE
    /\ prev = NoPrev

NotCalled == [state |-> "none", name |-> <<>>, result |-> FALSE]

\* Nothing of the plugins command has run and there is nothing to list.
PluginsIdle ==
    /\ plugin_registry = <<>>
    /\ working_set = {}
    /\ installed_list = <<>>
    /\ uninstalled_list = <<>>
    /\ is_installed = NotCalled
    /\ plugins_pc = "idle"
    /\ plugins_out = <<>>

NoArgs == [plugin_name |-> <<>>, upgrade |-> FALSE, is_windows |-> FALSE]

\* `plugins install` has not run.
InstallPluginIdle ==
    /\ install_pc = "idle"
    /\ install_args = NoArgs
    /\ script_file = "absent"
    /\ install_did = <<>>
    /\ install_out = <<>>

NoCommands == [keys |-> <<>>, val |-> <<>>]
NoCommand == [name |-> "", from |-> 0]

\* No efr process has started.
RootIdle ==
    /\ entry_points = <<>>
    /\ to_load = <<>>
    /\ root_commands = NoCommands
    /\ root_pc = "idle"
    /\ dispatched = NoCommand

NoBoardsArgs == [board_name |-> "", custom_board_path |-> FALSE]

\* `motorgo boards install` has not run.
BoardsIdle ==
    /\ boards_pc = "idle"
    /\ boards_args = NoBoardsArgs
    /\ board_index = <<>>
    /\ board_repo = NoSource
    /\ temp_dir = "none"
    /\ boards_did = <<>>
    /\ boards_out = <<>>

\* repo_list = None
None == [none |-> TRUE, repos |-> <<>>]

\* _get_all_repos has not been called and there is no remote.
ReposIdle ==
    /\ repo_list = None
    /\ gh_remote = <<>>
    /\ repo_calls = <<>>

NoWorktree ==
    [is_repo |-> FALSE,
     files |-> [f \in {"README.md", "LICENSE", ".gitignore"} |-> "absent"],
     staged |-> {}, commits |-> 0]

\* No gh command that runs git has run.
GitIdle ==
    /\ worktree = NoWorktree
    /\ gh_pc = "idle"
    /\ gh_did = <<>>
    /\ gh_out = <<>>

NoRemote == [exists |-> FALSE, url |-> <<>>]

\* `gh togprot` has not run and there is no remote.
RemoteIdle ==
    /\ origin = NoRemote
    /\ togprot_did = <<>>
    /\ togprot_out = <<>>

NoParent == [exists |-> FALSE, kids |-> <<>>]

\* `plugins init` has not run and there is no directory to run it on.
NewPluginIdle ==
    /\ plugin_parent = NoParent
    /\ newplugin_did = <<>>
    /\ newplugin_out = <<>>

\* What is idle in a specification of the motorgo installer.
NotMotorgoIdle ==
    /\ PluginsIdle /\ InstallPluginIdle /\ RootIdle /\ BoardsIdle /\ ReposIdle /\ GitIdle
    /\ RemoteIdle /\ NewPluginIdle

Names(dir) == DOMAIN dir.kids

\* The subsets of U with at most k elements.
RECURSIVE KSubsets(_, _)
KSubsets(U, k) ==
    IF k = 0 THEN {{}}
    ELSE LET smaller == KSubsets(U, k - 1)
         IN smaller \cup {s \cup {x} : s \in smaller, x \in U}

\* Every order in which a directory listing can yield the entries of S.
Orders(S) ==
    {o \in [1..Cardinality(S) -> S] : \A i, j \in 1..Cardinality(S) : o[i] = o[j] => i = j}

\* ---------------------------------------------------------------- scanners
VerTokens == {"latest"} \cup {ToString(i) : i \in 1..MaxVer}

\* Python's str.split(sep): the segments of s between occurrences of sep.
RECURSIVE split(_, _)
split(s, sep) ==
    IF \A i \in 1..Len(s) : s[i] # sep THEN <<s>>
    ELSE LET i == CHOOSE k \in 1..Len(s) : s[k] = sep /\ \A j \in 1..(k - 1) : s[j] # sep
         IN <<SubSeq(s, 1, i - 1)>> \o split(SubSeq(s, i + 1, Len(s)), sep)

\* Path.glob(f"{pkg}@*"): the children whose name starts with pkg, "@".
glob(dir, pkg) == {n \in Names(dir) : Len(n) >= 2 /\ n[1] = pkg /\ n[2] = "@"}

\* The version label the scanner gives a directory name.
version_label_first(name) ==
    IF \E i \in 1..Len(name) : name[i] = "@"
    THEN split(name, "@")[2]
    ELSE <<"latest">>

version_label(name) ==
    IF \E i \in 1..Len(name) : name[i] = "@"
    THEN LET parts == split(name, "@") IN parts[Len(parts)]
    ELSE <<"latest">>

\* A Python dict: keys in insertion order, and the value of each key.
EmptyDict == [keys |-> <<>>, val |-> <<>>]
HasKey(d, k) == \E i \in 1..Len(d.keys) : d.keys[i] = k
\* A dict assignment as it would be if the first value of a key were kept.
DictSetDefault(d, k, v) ==
    IF HasKey(d, k) THEN d
    ELSE [keys |-> Append(d.keys, k),
          val |-> [x \in DOMAIN d.val \cup {k} |-> IF x = k THEN v ELSE d.val[x]]]

DictSet(d, k, v) ==
    [keys |-> IF HasKey(d, k) THEN d.keys ELSE Append(d.keys, k),
     val |-> [x \in DOMAIN d.val \cup {k} |-> IF x = k THEN v ELSE d.val[x]]]

\* The loop over the found directories: versions[label] = Path(dir).
RECURSIVE collect_versions(_, _)
collect_versions(dirs, acc) ==
    IF dirs = <<>> THEN acc
    ELSE collect_versions(Tail(dirs), DictSet(acc, version_label(Head(dirs)), Head(dirs)))

Raised == [state |-> "raised", keys |-> <<>>, val |-> <<>>]
NotScanned == [state |-> "none", keys |-> <<>>, val |-> <<>>]
Returned(d) == [state |-> "ok", keys |-> d.keys, val |-> d.val]

scan_unchecked(dir, pkg, globbed) ==
    LET latest == <<pkg>>
        dirs == IF dir.exists /\ latest \in Names(dir) THEN <<latest>> \o globbed ELSE globbed
    IN Returned(collect_versions(dirs, EmptyDict))

\* The body shared by get_platform_versions and get_framework_versions;
\* globbed is the order in which glob yields its matches.
scan_versions(dir, pkg, globbed) ==
    IF ~dir.exists THEN Raised
    ELSE LET latest == <<pkg>>
             dirs == IF latest \in Names(dir) THEN <<latest>> \o globbed ELSE globbed
         IN Returned(collect_versions(dirs, EmptyDict))

get_platform_versions(globbed) == scan_versions(platforms, PLATFORM_NAME, globbed)
get_framework_versions(globbed) == scan_versions(packages, FRAMEWORK_NAME, globbed)

\* ------------------------------------------------- specification: scanning
\* Each scanner is called once, as install calls it, on its base directory.
\* Directory names the scans are tried on: the package, versions of it, names
\* with a second "@", an empty version, and names that must not match.
ScanNames(pkg) ==
    {<<pkg>>, <<pkg, "@">>, <<"other">>, <<"other", "@", "1">>, <<pkg, "1">>}
        \cup {<<pkg, "@", v>> : v \in VerTokens}
        \cup {<<pkg, "@", v, "@", w>> : v \in VerTokens, w \in VerTokens}

\* The directory holding the names S, each with the node given.
ScanDir(S, exists, node) ==
    IF exists \/ S # {} THEN [exists |-> TRUE, kids |-> [n \in S |-> node]] ELSE NoDir

\* One of the two base directories holds up to MaxKids of the names; the other
\* is missing or empty.
InitScan ==
    /\ \E e1, e2 \in BOOLEAN :
          \/ \E S \in KSubsets(ScanNames(FRAMEWORK_NAME), MaxKids) :
                 /\ packages = ScanDir(S, e1, PlainPackage)
                 /\ platforms = ScanDir({}, e2, PlainPlatform)
          \/ \E S \in KSubsets(ScanNames(PLATFORM_NAME), MaxKids) :
                 /\ platforms = ScanDir(S, e1, PlainPlatform)
                 /\ packages = ScanDir({}, e2, PlainPackage)
    /\ framework_versions = NotScanned
    /\ platform_versions = NotScanned
    /\ source = NoSource
    /\ RunIdle
    /\ NotMotorgoIdle

CallGetPlatformVersions ==
    /\ platform_versions.state = "none"
    /\ \E globbed \in Orders(glob(platforms, PLATFORM_NAME)) :
           platform_versions' = get_platform_versions(globbed)
    /\ UNCHANGED <<fsVars, framework_versions, runVars, notMotorgo>>

CallGetFrameworkVersions ==
    /\ framework_versions.state = "none"
    /\ \E globbed \in Orders(glob(packages, FRAMEWORK_NAME)) :
           framework_versions' = get_framework_versions(globbed)
    /\ UNCHANGED <<fsVars, platform_versions, runVars, notMotorgo>>

NextScan == CallGetPlatformVersions \/ CallGetFrameworkVersions

SpecScan == InitScan /\ [][NextScan]_vars

\* ------------------------------------------------------------ file copiers
\* shutil.copytree(src, dst, dirs_exist_ok=True): copies over what is there.
copytree_exist_ok(src, dst) ==
    IF ~src.exists THEN [err |-> "FileNotFoundError", dst |-> dst]
    ELSE [err |-> "",
          dst |-> DirEntry([f \in Files |->
                      IF src.files[f] # 0 THEN src.files[f] ELSE dst.files[f]])]

\* shutil.copytree(src, dst): lists src, then creates dst, which must not exist.
copytree(src, dst) ==
    IF ~src.exists THEN [err |-> "FileNotFoundError", dst |-> dst]
    ELSE IF dst.exists THEN [err |-> "FileExistsError", dst |-> dst]
    ELSE [err |-> "", dst |-> DirEntry(src.files)]

rmtree_keep(dst) == dst

\* shutil.rmtree(dst)
rmtree(dst) == NoEntry

\* shutil.copy2(src, dst) of a file onto a file path: opens dst for writing,
\* whether or not it exists, and never raises FileExistsError.
copy2(src, dst) ==
    IF src = 0 THEN [err |-> "FileNotFoundError", dst |-> dst]
    ELSE [err |-> "", dst |-> src]

\* os.remove(dst)
remove(dst) == 0

CopyRaised(node, err) == [raised |-> TRUE, node |-> node, result |-> err, out |-> <<>>]
CopyDone(node, result, msgs) == [raised |-> FALSE, node |-> node, result |-> result, out |-> msgs]

copy_framework_files_reraise(node, variant, f) ==
    IF ~node.variants THEN CopyRaised(node, "FileNotFoundError")
    ELSE LET first == copytree(variant, node.board) IN
         IF first.err = "" THEN CopyDone([node EXCEPT !.board = first.dst], "copied", <<>>)
         ELSE CopyRaised(node, first.err)

\* copy_framework_files(framework_versioned_path, variant_path, force) on the
\* node of the versioned path: what it raised, the node after, what it printed.
copy_framework_files(node, variant, f) ==
    IF ~node.variants THEN CopyRaised(node, "FileNotFoundError")
    ELSE LET first == copytree(variant, node.board) IN
         IF first.err = "" THEN CopyDone([node EXCEPT !.board = first.dst], "copied", <<>>)
         ELSE IF first.err = "FileExistsError"
         THEN IF f
              THEN LET again == copytree(variant, rmtree(node.board))
                       after == [node EXCEPT !.board = again.dst]
                   IN IF again.err = ""
                      THEN CopyDone(after, "overwritten", <<"Overwriting variant">>)
                      ELSE [raised |-> TRUE, node |-> after, result |-> again.err,
                            out |-> <<"Overwriting variant">>]
              ELSE CopyDone(node, "skipped",
                            <<"Variant already exists. Use --force to overwrite.">>)
         ELSE CopyRaised(node, first.err)

\* copy_platform_files(platform_versioned_path, board_json_path, force)
copy_platform_files(node, json, f) ==
    IF ~node.boards THEN CopyRaised(node, "FileNotFoundError")
    ELSE LET first == copy2(json, node.json) IN
         IF first.err = "" THEN CopyDone([node EXCEPT !.json = first.dst], "copied", <<>>)
         ELSE IF first.err = "FileExistsError"
         THEN IF f
              THEN LET again == copy2(json, remove(node.json))
                       after == [node EXCEPT !.json = again.dst]
                   IN IF again.err = ""
                      THEN CopyDone(after, "overwritten", <<"Overwriting board JSON file">>)
                      ELSE [raised |-> TRUE, node |-> after, result |-> again.err,
                            out |-> <<"Overwriting board JSON file">>]
              ELSE CopyDone(node, "skipped",
                            <<"Board JSON file already exists. Use --force to overwrite.">>)
         ELSE CopyRaised(node, first.err)

\* One call as the model records it: the function, the version and directory
\* it was given, whether the destination existed before, whether the call
\* changed the directory, whether the destination then equals the source, and
\* how the call ended.
FrameworkCall(v, n, r) ==
    [fn |-> "copy_framework_files", version |-> v, path |-> n,
     existed |-> packages.kids[n].variants /\ packages.kids[n].board.exists,
     changed |-> r.node # packages.kids[n],
     matches |-> r.node.board = source.variant,
     result |-> r.result]

PlatformCall(v, n, r) ==
    [fn |-> "copy_platform_files", version |-> v, path |-> n,
     existed |-> platforms.kids[n].boards /\ platforms.kids[n].json # 0,
     changed |-> r.node # platforms.kids[n],
     matches |-> r.node.json = source.json,
     result |-> r.result]

Printed(msgs, v) == [i \in 1..Len(msgs) |-> [text |-> msgs[i], about |-> v]]

\* ---------------------------------------- specification: the copy functions
\* copy_framework_files and copy_platform_files called on their own, as install
\* calls them (the source variant directory and JSON file exist), on one
\* installed version of each package.
PackageNodes ==
    {PlainPackage} \cup
        {[variants |-> TRUE, board |-> b] : b \in {NoEntry} \cup {DirEntry(t) : t \in Tree}}
PlatformNodes == {PlainPlatform} \cup {[boards |-> TRUE, json |-> c] : c \in 0..MaxContent}
Sources == [variant : {NoEntry} \cup {DirEntry(t) : t \in Tree}, json : 0..MaxContent]

InitCopy ==
    /\ \E node \in PackageNodes :
           packages = [exists |-> TRUE, kids |-> (<<FRAMEWORK_NAME>> :> node)]
    /\ \E node \in PlatformNodes :
           platforms = [exists |-> TRUE, kids |-> (<<PLATFORM_NAME>> :> node)]
    /\ source \in {src \in Sources : src.variant.exists /\ src.json # 0}
    /\ framework_versions = NotScanned
    /\ platform_versions = NotScanned
    /\ all = FALSE
    /\ force \in BOOLEAN
    /\ pc = "idle"
    /\ versions = <<>>
    /\ out = <<>>
    /\ calls = <<>>
    /\ answers = [framework |-> NoAnswer, platform |-> NoAnswer]
    /\ second = FALSE
    /\ prev = NoPrev
    /\ NotMotorgoIdle

CallCopyFrameworkFiles ==
    /\ Len(calls) < MaxCalls
    /\ \E n \in Names(packages) :
           LET r == copy_framework_files(packages.kids[n], source.variant, force)
               v == version_label(n)
           IN /\ packages' = [packages EXCEPT !.kids[n] = r.node]
              /\ calls' = Append(calls, FrameworkCall(v, n, r))
              /\ out' = out \o Printed(r.out, v)
    /\ UNCHANGED <<platforms, source, scanVars, all, force, pc, versions, answers, second, prev, notMotorgo>>

CallCopyPlatformFiles ==
    /\ Len(calls) < MaxCalls
    /\ \E n \in Names(platforms) :
           LET r == copy_platform_files(platforms.kids[n], source.json, force)
               v == version_label(n)
           IN /\ platforms' = [platforms EXCEPT !.kids[n] = r.node]
              /\ calls' = Append(calls, PlatformCall(v, n, r))
              /\ out' = out \o Printed(r.out, v)
    /\ UNCHANGED <<packages, source, scanVars, all, force, pc, versions, answers, second, prev, notMotorgo>>

NextCopy == CallCopyFrameworkFiles \/ CallCopyPlatformFiles

SpecCopy == InitCopy /\ [][NextCopy]_vars

\* ---------------------------------------------------- installer: install()
Say(text) == <<[text |-> text, about |-> <<>>]>>

check_source_variant_only(src) ==
    IF ~src.variant.exists THEN "Variant path not found" ELSE "ok"

\* The two checks install makes of the source tree before anything else.
check_source(src) ==
    IF ~src.variant.exists THEN "Variant path not found"
    ELSE IF src.json = 0 THEN "Board JSON file not found"
    ELSE "ok"

\* The elements of opts that are in S, in the order of opts.
RECURSIVE Pick(_, _)
Pick(opts, S) ==
    IF opts = <<>> THEN <<>>
    ELSE (IF Head(opts) \in S THEN <<Head(opts)>> ELSE <<>>) \o Pick(Tail(opts), S)

Range(seq) == {seq[i] : i \in 1..Len(seq)}

\* questionary.checkbox(choices=options).ask(): the checked choices, in the
\* order of the choices, or None when the prompt is cancelled. The second run
\* is given the answers of the first.
Ask(which, options) ==
    IF second
    THEN {answers[which]}
    ELSE {[asked |-> TRUE, cancelled |-> FALSE, picked |-> S] : S \in SUBSET Range(options)}
             \cup {[asked |-> TRUE, cancelled |-> TRUE, picked |-> {}]}

\* install, lines 219-268: the source checks, the framework scan and the
\* choice of framework versions.
InstallBegin ==
    /\ pc = "idle"
    /\ IF check_source(source) # "ok"
       THEN /\ out' = out \o Say(check_source(source))
            /\ pc' = "returned"
            /\ UNCHANGED <<framework_versions, versions, answers>>
       ELSE \E globbed \in Orders(glob(packages, FRAMEWORK_NAME)) :
                LET fv == get_framework_versions(globbed) IN
                /\ framework_versions' = fv
                /\ IF fv.state = "raised"
                   THEN /\ pc' = "raised"
                        /\ UNCHANGED <<out, versions, answers>>
                   ELSE IF ~all
                   THEN IF fv.keys # <<>>
                        THEN \E a \in Ask("framework", fv.keys) :
                                 /\ answers' = [answers EXCEPT !.framework = a]
                                 /\ versions' = Pick(fv.keys, a.picked)
                                 /\ out' = IF a.cancelled \/ a.picked = {}
                                           THEN out \o Say("No versions selected. Skipping framework installation.")
                                           ELSE out
                                 \* for version in None: TypeError
                                 /\ pc' = IF a.cancelled THEN "raised" ELSE "framework_copy"
                        ELSE /\ out' = out \o Say("No framework versions found. Skipping framework installation.")
                             /\ versions' = <<>>
                             /\ pc' = "framework_copy"
                             /\ UNCHANGED answers
                   ELSE IF fv.keys = <<>>
                        THEN /\ out' = out \o Say("No framework versions found. Exiting.")
                             /\ pc' = "returned"
                             /\ UNCHANGED <<versions, answers>>
                        ELSE /\ versions' = fv.keys
                             /\ pc' = "framework_copy"
                             /\ UNCHANGED <<out, answers>>
    /\ UNCHANGED <<fsVars, platform_versions, all, force, calls, second, prev, notMotorgo>>

\* install, lines 271-272: one turn of the loop over the framework versions.
FrameworkCopy ==
    /\ pc = "framework_copy"
    /\ versions # <<>>
    /\ LET v == Head(versions) IN
       IF v \notin DOMAIN framework_versions.val
       THEN /\ pc' = "raised"        \* KeyError
            /\ UNCHANGED <<packages, versions, out, calls>>
       ELSE LET n == framework_versions.val[v]
                r == copy_framework_files(packages.kids[n], source.variant, force)
            IN /\ packages' = [packages EXCEPT !.kids[n] = r.node]
               /\ calls' = Append(calls, FrameworkCall(v, n, r))
               /\ out' = out \o Printed(r.out, v)
               /\ IF r.raised
                  THEN pc' = "raised" /\ UNCHANGED versions
                  ELSE pc' = pc /\ versions' = Tail(versions)
    /\ UNCHANGED <<platforms, source, scanVars, all, force, answers, second, prev, notMotorgo>>

\* versions = list(platform_versions.keys()), line 292
all_platform_versions(pv) == pv.keys

\* install, lines 274-296: the platform scan and the choice of platform
\* versions, once the framework loop has ended. With no choice to offer the
\* prompt either raises or returns nothing, as questionary decides.
PlatformSelect ==
    /\ pc = "framework_copy"
    /\ versions = <<>>
    /\ \E globbed \in Orders(glob(platforms, PLATFORM_NAME)) :
           LET pv == get_platform_versions(globbed) IN
           /\ platform_versions' = pv
           /\ IF pv.state = "raised"
              THEN /\ pc' = "raised"
                   /\ UNCHANGED <<out, versions, answers>>
              ELSE IF ~all
              THEN \E a \in Ask("platform", pv.keys) :
                       /\ answers' = [answers EXCEPT !.platform = a]
                       /\ \/ /\ pv.keys = <<>>
                             /\ a.cancelled
                             /\ pc' = "raised"      \* no choices: ValueError
                             /\ UNCHANGED <<out, versions>>
                          \/ /\ a.cancelled \/ a.picked = {}
                             /\ out' = out \o Say("No versions selected. Exiting.")
                             /\ pc' = "returned"
                             /\ UNCHANGED versions
                          \/ /\ ~a.cancelled /\ a.picked # {}
                             /\ versions' = Pick(pv.keys, a.picked)
                             /\ pc' = "platform_copy"
                             /\ UNCHANGED out
              ELSE IF all_platform_versions(pv) = <<>>
                   THEN /\ out' = out \o Say("No platform versions found. Exiting.")
                        /\ pc' = "returned"
                        /\ UNCHANGED <<versions, answers>>
                   ELSE /\ versions' = all_platform_versions(pv)
                        /\ pc' = "platform_copy"
                        /\ UNCHANGED <<out, answers>>
    /\ UNCHANGED <<fsVars, framework_versions, all, force, calls, second, prev, notMotorgo>>

\* install, lines 299-300: one turn of the loop over the platform versions.
PlatformCopy ==
    /\ pc = "platform_copy"
    /\ versions # <<>>
    /\ LET v == Head(versions) IN
       IF v \notin DOMAIN platform_versions.val
       THEN /\ pc' = "raised"        \* KeyError
            /\ UNCHANGED <<platforms, versions, out, calls>>
       ELSE LET n == platform_versions.val[v]
                r == copy_platform_files(platforms.kids[n], source.json, force)
            IN /\ platforms' = [platforms EXCEPT !.kids[n] = r.node]
               /\ calls' = Append(calls, PlatformCall(v, n, r))
               /\ out' = out \o Printed(r.out, v)
               /\ IF r.raised
                  THEN pc' = "raised" /\ UNCHANGED versions
                  ELSE pc' = pc /\ versions' = Tail(versions)
    /\ UNCHANGED <<packages, source, scanVars, all, force, answers, second, prev, notMotorgo>>

\* install, lines 302-306: the success message.
InstallFinish ==
    /\ pc = "platform_copy"
    /\ versions = <<>>
    /\ out' = out \o Say("Board definition installed successfully.")
    /\ pc' = "done"
    /\ UNCHANGED <<fsVars, scanVars, all, force, versions, calls, answers, second, prev, notMotorgo>>

\* The command is run once more with the same arguments and the same answers,
\* after a run that installed the board.
RunAgain ==
    /\ pc = "done"
    /\ ~second
    /\ second' = TRUE
    /\ prev' = [packages |-> packages, platforms |-> platforms, calls |-> calls]
    /\ pc' = "idle"
    /\ out' = <<>>
    /\ calls' = <<>>
    /\ versions' = <<>>
    /\ framework_versions' = NotScanned
    /\ platform_versions' = NotScanned
    /\ UNCHANGED <<fsVars, all, force, answers, notMotorgo>>

\* ------------------------------------------------ specification: installing
\* The installed versions install is tried on: <pkg> and <pkg>@1 .. <pkg>@MaxVer,
\* at most MaxKids directories in all. A destination holds nothing, a copy of
\* the source, or other content.
InstallNames(pkg) == {<<pkg>>} \cup {<<pkg, "@", ToString(i)>> : i \in 1..MaxVer}
NewTree == [f \in Files |-> 1]
OldTree == [f \in Files |-> IF f = 1 THEN MaxContent ELSE 0]
InstallSources == [variant : {NoEntry, DirEntry(NewTree)}, json : {0, 1}]
InstallPackageNodes ==
    {PlainPackage} \cup
        {[variants |-> TRUE, board |-> b] : b \in {NoEntry, DirEntry(NewTree), DirEntry(OldTree)}}
InstallPlatformNodes ==
    {PlainPlatform} \cup {[boards |-> TRUE, json |-> c] : c \in {0, 1, MaxContent}}
InstallDirs(pkg, nodes) ==
    {NoDir} \cup UNION {{[exists |-> TRUE, kids |-> k] : k \in [S -> nodes]} :
                           S \in KSubsets(InstallNames(pkg), MaxKids)}

InitInstall ==
    /\ packages \in InstallDirs(FRAMEWORK_NAME, InstallPackageNodes)
    /\ platforms \in InstallDirs(PLATFORM_NAME, InstallPlatformNodes)
    /\ Cardinality(Names(packages)) + Cardinality(Names(platforms)) <= MaxKids
    /\ source \in InstallSources
    /\ framework_versions = NotScanned
    /\ platform_versions = NotScanned
    /\ all \in BOOLEAN
    /\ force \in BOOLEAN
    /\ pc = "idle"
    /\ versions = <<>>
    /\ out = <<>>
    /\ calls = <<>>
    /\ answers = [framework |-> NoAnswer, platform |-> NoAnswer]
    /\ second = FALSE
    /\ prev = NoPrev
    /\ NotMotorgoIdle

NextInstall ==
    \/ InstallBegin
    \/ FrameworkCopy
    \/ PlatformSelect
    \/ PlatformCopy
    \/ InstallFinish
    \/ RunAgain

SpecInstall == InitInstall /\ [][NextInstall]_vars

\* ------------------------------------------------------- plugins: listing
\* Package and plugin names are sequences of characters.
\* str.lower() of one character.
LowerChar(c) ==
    CASE c = "A" -> "a"
      [] c = "B" -> "b"
      [] c = "E" -> "e"
      [] c = "F" -> "f"
      [] c = "R" -> "r"
      [] OTHER -> c

keep_case(str) == str

\* str.lower()
lower(str) == [i \in 1..Len(str) |-> LowerChar(str[i])]

\* f"efr-{plugin_name}"
efr_package(plugin_name) == <<"e", "f", "r", "-">> \o plugin_name

\* {dist.project_name.lower() for dist in pkg_resources.working_set}
installed_packages == {lower(project_name) : project_name \in working_set}

\* plugin_utils.is_plugin_installed(plugin_name)
is_plugin_installed(plugin_name) ==
    LET candidate_name == lower(efr_package(plugin_name))
    IN candidate_name \in installed_packages

\* The loop of list_plugins over the registry: [installed, uninstalled].
RECURSIVE classify(_, _)
classify(entries, acc) ==
    IF entries = <<>> THEN acc
    ELSE LET e == Head(entries)
             pkg_name == lower(efr_package(e.name))
         IN classify(Tail(entries),
                IF pkg_name \in installed_packages
                THEN [acc EXCEPT !.installed = Append(@, <<e.name, e.info>>)]
                ELSE [acc EXCEPT !.uninstalled = Append(@, <<e.name, e.info>>)])

\* `efr plugins list`: retrieve_registry returns None when the fetch fails,
\* and the loop over plugin_registry.items() then raises.
ListPlugins ==
    /\ plugins_pc = "idle"
    /\ \E fetched \in BOOLEAN :
           IF fetched
           THEN LET lists == classify(plugin_registry, [installed |-> <<>>, uninstalled |-> <<>>])
                IN /\ installed_list' = lists.installed
                   /\ uninstalled_list' = lists.uninstalled
                   /\ plugins_out' = plugins_out \o <<"Fetching plugin registry...">>
                   /\ plugins_pc' = "listed"
           ELSE /\ plugins_out' = plugins_out \o
                                     <<"Fetching plugin registry...", "Error fetching registry">>
                /\ plugins_pc' = "raised"
                /\ UNCHANGED <<installed_list, uninstalled_list>>
    /\ UNCHANGED <<plugin_registry, working_set, is_installed, notPlugins>>

\* A call of plugin_utils.is_plugin_installed.
CallIsPluginInstalled(plugin_name) ==
    /\ is_installed' = [state |-> "returned", name |-> plugin_name,
                        result |-> is_plugin_installed(plugin_name)]
    /\ UNCHANGED <<plugin_registry, working_set, installed_list, uninstalled_list,
                   plugins_pc, plugins_out, notPlugins>>

\* ------------------------------------------------- specification: plugins
\* Plugin names, and the project names installed: efr-<name> in either case,
\* and names that only resemble it.
PluginNames == {<<"a">>, <<"A">>, <<"b">>, <<"a", "b">>}
ProjectNames ==
    {prefix \o n : prefix \in {<<"e", "f", "r", "-">>, <<"E", "F", "R", "-">>,
                                <<"e", "f", "r">>, <<>>},
                   n \in PluginNames}
Infos == {[description |-> "text", install_url |-> "url"]}
\* The registries: up to MaxRegistry entries with different names.
Registries ==
    UNION {{[i \in 1..Cardinality(S) |-> [name |-> o[i], info |-> info]] :
                o \in Orders(S), info \in Infos} :
               S \in KSubsets(PluginNames, MaxRegistry)}

MotorgoIdle ==
    /\ packages = NoDir
    /\ platforms = NoDir
    /\ source = NoSource
    /\ framework_versions = NotScanned
    /\ platform_versions = NotScanned
    /\ RunIdle

NotPluginsIdle ==
    /\ MotorgoIdle /\ InstallPluginIdle /\ RootIdle /\ BoardsIdle /\ ReposIdle /\ GitIdle
    /\ RemoteIdle /\ NewPluginIdle
NotPluginCommandsIdle ==
    /\ MotorgoIdle /\ RootIdle /\ BoardsIdle /\ ReposIdle /\ GitIdle
    /\ RemoteIdle /\ NewPluginIdle
NotRootIdle ==
    /\ MotorgoIdle /\ PluginsIdle /\ InstallPluginIdle /\ BoardsIdle /\ ReposIdle /\ GitIdle
    /\ RemoteIdle /\ NewPluginIdle
NotBoardsIdle ==
    /\ PluginsIdle /\ InstallPluginIdle /\ RootIdle /\ ReposIdle /\ GitIdle
    /\ RemoteIdle /\ NewPluginIdle
NotReposIdle ==
    /\ MotorgoIdle /\ PluginsIdle /\ InstallPluginIdle /\ RootIdle /\ BoardsIdle /\ GitIdle
    /\ RemoteIdle /\ NewPluginIdle
NotGitIdle ==
    /\ MotorgoIdle /\ PluginsIdle /\ InstallPluginIdle /\ RootIdle /\ BoardsIdle /\ ReposIdle
    /\ RemoteIdle /\ NewPluginIdle
NotRemoteIdle ==
    /\ MotorgoIdle /\ PluginsIdle /\ InstallPluginIdle /\ RootIdle /\ BoardsIdle /\ ReposIdle
    /\ GitIdle /\ NewPluginIdle
NotNewPluginIdle ==
    /\ MotorgoIdle /\ PluginsIdle /\ InstallPluginIdle /\ RootIdle /\ BoardsIdle /\ ReposIdle
    /\ GitIdle /\ RemoteIdle

InitPlugins ==
    /\ plugin_registry \in Registries
    /\ working_set \in KSubsets(ProjectNames, MaxPkgs)
    /\ installed_list = <<>>
    /\ uninstalled_list = <<>>
    /\ is_installed = NotCalled
    /\ plugins_pc = "idle"
    /\ plugins_out = <<>>
    /\ NotPluginsIdle

NextPlugins ==
    \/ ListPlugins
    \/ \E plugin_name \in PluginNames : CallIsPluginInstalled(plugin_name)

SpecPlugins == InitPlugins /\ [][NextPlugins]_vars

\* ------------------------------------------------------ plugins: install
\* dict.get(key) on an entry of the registry: None is the empty text.
info_get(info, key) == IF key \in DOMAIN info THEN info[key] ELSE <<>>

\* registry.get(plugin_name): the entry of that name, or None (an entry
\* without any key, as `not plugin_info` cannot tell the two apart).
RECURSIVE registry_get(_, _)
registry_get(registry, plugin_name) ==
    IF registry = <<>> THEN <<>>
    ELSE IF Head(registry).name = plugin_name THEN Head(registry).info
    ELSE registry_get(Tail(registry), plugin_name)

\* install_url.replace("install.sh", "install.ps1")
replace_install_sh(url) ==
    [i \in 1..Len(url) |-> IF url[i] = "install.sh" THEN "install.ps1" ELSE url[i]]

already_installed_never(plugin_name, upgrade) == FALSE

\* plugin_utils.is_plugin_installed(plugin_name) and not upgrade
already_installed(plugin_name, upgrade) == is_plugin_installed(plugin_name) /\ ~upgrade

remove_script_keep(file) == file

\* The finally block: os.remove(script_path) if it exists.
remove_script(file) == "absent"

Did(op, arg) == [op |-> op, arg |-> arg]

\* install_plugin, lines 225-282: the registry fetch, the checks, the download
\* and the writing of the temporary script file.
InstallPluginBegin(plugin_name, upgrade, is_windows) ==
    /\ install_pc = "idle"
    /\ install_args' = [plugin_name |-> plugin_name, upgrade |-> upgrade,
                        is_windows |-> is_windows]
    /\ \E fetched \in BOOLEAN, downloaded \in BOOLEAN :
           LET plugin_info == registry_get(plugin_registry, plugin_name)
               install_url == info_get(plugin_info, "install_url")
               url == IF is_windows THEN replace_install_sh(install_url) ELSE install_url
               retrieved == <<Did("retrieve_registry", <<>>)>>
           IN IF ~fetched
              THEN \* registry is None: registry.get raises AttributeError
                   /\ install_out' = <<"Error fetching registry">>
                   /\ install_did' = retrieved
                   /\ install_pc' = "raised"
                   /\ UNCHANGED script_file
              ELSE IF plugin_info = <<>>
              THEN /\ install_out' = <<"not found in registry.">>
                   /\ install_did' = retrieved
                   /\ install_pc' = "returned"
                   /\ UNCHANGED script_file
              ELSE IF install_url = <<>>
              THEN /\ install_out' = <<"has no install_url in registry.">>
                   /\ install_did' = retrieved
                   /\ install_pc' = "returned"
                   /\ UNCHANGED script_file
              ELSE IF already_installed(plugin_name, upgrade)
              THEN /\ install_out' = <<"is already installed. Use --upgrade to force re-install.">>
                   /\ install_did' = retrieved
                   /\ install_pc' = "returned"
                   /\ UNCHANGED script_file
              ELSE IF ~downloaded
              THEN /\ install_out' = <<"Fetching install script", "Error downloading install script">>
                   /\ install_did' = retrieved \o <<Did("requests.get", url)>>
                   /\ install_pc' = "returned"
                   /\ UNCHANGED script_file
              ELSE /\ install_out' = <<"Fetching install script", "Running install script">>
                   /\ install_did' = retrieved \o
                          <<Did("requests.get", url), Did("write_script", url)>> \o
                          (IF is_windows THEN <<>> ELSE <<Did("chmod", <<>>)>>)
                   /\ script_file' = "present"
                   /\ install_pc' = "run_script"
    /\ UNCHANGED <<pluginVars, notPluginCommands>>

\* install_plugin, lines 283-300: the script runs and the finally block removes
\* the file. The interpreter exits 0, exits non-zero (CalledProcessError) or
\* cannot be started (an OSError, which is not caught); the script may have
\* deleted its own file.
InstallPluginRun ==
    /\ install_pc = "run_script"
    /\ \E outcome \in {"exit 0", "exit 1", "OSError"}, self_deleted \in BOOLEAN :
           LET left == IF self_deleted /\ outcome # "OSError" THEN "absent" ELSE script_file
               interpreter == IF install_args.is_windows THEN <<"powershell">> ELSE <<"bash">>
           IN /\ script_file' = IF left = "present" THEN remove_script(left) ELSE left
              /\ install_did' = install_did \o <<Did("subprocess.run", interpreter)>> \o
                     (IF left = "present" THEN <<Did("os.remove", <<>>)>> ELSE <<>>)
              /\ install_out' = install_out \o
                     (CASE outcome = "exit 0" ->
                               <<"installed (or upgraded) successfully!", "==> Cleanup complete.">>
                        [] outcome = "exit 1" ->
                               <<"Error running install script", "==> Cleanup complete.">>
                        [] OTHER -> <<>>)
              /\ install_pc' = IF outcome = "OSError" THEN "raised" ELSE "done"
    /\ UNCHANGED <<install_args, pluginVars, notPluginCommands>>

\* ---------------------------------------- specification: plugins commands
\* `plugins list` and `plugins install` on a registry whose entries have an
\* install_url, have none, or have no key at all.
ScriptUrl == <<"https://host/", "install.sh">>
InstallInfos ==
    {[description |-> <<"text">>, install_url |-> ScriptUrl],
     [description |-> <<"text">>],
     <<>>}
InstallRegistries ==
    UNION {{[i \in 1..Cardinality(S) |-> [name |-> o[i], info |-> infos[i]]] :
                o \in Orders(S), infos \in [1..Cardinality(S) -> InstallInfos]} :
               S \in KSubsets(PluginNames, 1)}

InitPluginCommands ==
    /\ plugin_registry \in InstallRegistries
    /\ working_set \in KSubsets(ProjectNames, 1)
    /\ installed_list = <<>>
    /\ uninstalled_list = <<>>
    /\ is_installed = NotCalled
    /\ plugins_pc = "idle"
    /\ plugins_out = <<>>
    /\ InstallPluginIdle
    /\ NotPluginCommandsIdle

NextPluginCommands ==
    \/ ListPlugins
    \/ \E plugin_name \in PluginNames, upgrade \in BOOLEAN, is_windows \in BOOLEAN :
           InstallPluginBegin(plugin_name, upgrade, is_windows)
    \/ InstallPluginRun

SpecPluginCommands == InitPluginCommands /\ [][NextPluginCommands]_vars

\* ------------------------------------------------- efr: the root dispatcher
\* A command object: its click name and the entry point it was loaded from
\* (0 for a command defined in efr/cli.py itself).
Command(name, from) == [name |-> name, from |-> from]

\* @cli.command() def upgrade: the one command the root group defines itself.
upgrade == Command("upgrade", 0)
builtin_commands == DictSet(EmptyDict, upgrade.name, upgrade)

entry_point_name(ep, plugin) == ep.name

\* click's Group.add_command(cmd): name = name or cmd.name
command_key(ep, plugin) == plugin.name

add_command_keep_first(commands, key, plugin) ==
    IF HasKey(commands, key) THEN commands ELSE DictSet(commands, key, plugin)

\* click's Group.add_command(cmd): self.commands[name] = cmd
add_command(commands, key, plugin) == DictSet(commands, key, plugin)

loop_turn_isolated(commands, ep, i) ==
    IF ~ep.loads THEN [raised |-> FALSE, commands |-> commands]
    ELSE LET plugin == Command(ep.command, i)
         IN [raised |-> FALSE,
             commands |-> add_command(commands, command_key(ep, plugin), plugin)]

\* One turn of the loop at the end of efr/cli.py: entry_point.load() raises, or
\* the loaded command is added to the root group.
loop_turn(commands, ep, i) ==
    IF ~ep.loads THEN [raised |-> TRUE, commands |-> commands]
    ELSE LET plugin == Command(ep.command, i)
         IN [raised |-> FALSE,
             commands |-> add_command(commands, command_key(ep, plugin), plugin)]

\* The process starts: efr/cli.py is imported up to its last loop.
RootStart ==
    /\ root_pc = "idle"
    /\ root_commands' = builtin_commands
    /\ to_load' = entry_points
    /\ root_pc' = "loading"
    /\ UNCHANGED <<entry_points, dispatched, notRoot>>

\* efr/cli.py, lines 107-109: one entry point is loaded and added. An exception
\* leaves the module half imported and ends the process.
RootLoad ==
    /\ root_pc = "loading"
    /\ to_load # <<>>
    /\ LET i == Len(entry_points) - Len(to_load) + 1
           turn == loop_turn(root_commands, Head(to_load), i)
       IN /\ root_commands' = turn.commands
          /\ IF turn.raised
             THEN root_pc' = "raised" /\ UNCHANGED to_load
             ELSE root_pc' = root_pc /\ to_load' = Tail(to_load)
    /\ UNCHANGED <<entry_points, dispatched, notRoot>>

\* `efr <cmd_name>`: once the module is imported the root group looks the name
\* up in its commands and invokes what it finds, or reports a usage error.
RootInvoke(cmd_name) ==
    /\ root_pc = "loading"
    /\ to_load = <<>>
    /\ IF HasKey(root_commands, cmd_name)
       THEN dispatched' = root_commands.val[cmd_name] /\ root_pc' = "invoked"
       ELSE root_pc' = "no such command" /\ UNCHANGED dispatched
    /\ UNCHANGED <<entry_points, to_load, root_commands, notRoot>>

\* ------------------------------------------- specification: the dispatcher
EntryNames == {"alpha", "beta"}
CommandNames == {"alpha", "beta", "upgrade"}
EntryPoints == [name : EntryNames, loads : BOOLEAN, command : CommandNames]
RECURSIVE SeqsUpTo(_, _)
SeqsUpTo(S, n) ==
    IF n = 0 THEN {<<>>}
    ELSE LET shorter == SeqsUpTo(S, n - 1)
         IN shorter \cup {Append(q, x) : q \in {r \in shorter : Len(r) = n - 1}, x \in S}

InitRoot ==
    /\ entry_points \in SeqsUpTo(EntryPoints, MaxEntries)
    /\ to_load = <<>>
    /\ root_commands = NoCommands
    /\ root_pc = "idle"
    /\ dispatched = NoCommand
    /\ NotRootIdle

NextRoot ==
    \/ RootStart
    \/ RootLoad
    \/ \E cmd_name \in CommandNames \cup {"gamma"} : RootInvoke(cmd_name)

SpecRoot == InitRoot /\ [][NextRoot]_vars

\* --------------------------------------------- motorgo: `boards install`
\* get_available_boards(): the boards of the index, or None when the request,
\* the JSON decoding or the "boards" key fails.
get_available_boards(fetched, index) ==
    IF fetched THEN [none |-> FALSE, boards |-> index]
    ELSE [none |-> TRUE, boards |-> <<>>]

\* The search for the board as it would be if every name were found.
board_exists_any(boards, board_name) == TRUE

\* The loop of install over the boards: is board_name an identifier of one.
board_exists(boards, board_name) ==
    \E i \in 1..Len(boards) : boards[i].identifier = board_name

\* motorgo/cli.py install, lines 163-192 and the call at 206 when a custom
\* path is given: the index fetch, the search for the board, and the
\* temporary directory. With no index to loop over the for statement raises
\* TypeError.
BoardsInstallBegin(board_name, custom_board_path) ==
    /\ boards_pc = "idle"
    /\ boards_args' = [board_name |-> board_name, custom_board_path |-> custom_board_path]
    /\ \E fetched \in BOOLEAN :
           LET boards == get_available_boards(fetched, board_index) IN
           IF boards.none
           THEN /\ boards_did' = <<"requests.get failed">>
                /\ boards_out' = <<"Installing board">>
                /\ boards_pc' = "raised"
                /\ UNCHANGED <<temp_dir, source, pc>>
           ELSE IF ~board_exists(boards.boards, board_name)
           THEN /\ boards_did' = <<"requests.get">>
                /\ boards_out' = <<"Installing board",
                                   "not found in the list of available boards.",
                                   "Run 'efr motorgo boards list' to see the list of available boards.">>
                /\ boards_pc' = "returned"
                /\ UNCHANGED <<temp_dir, source, pc>>
           ELSE IF custom_board_path
           THEN /\ boards_did' = <<"requests.get", "board_install.install">>
                /\ boards_out' = <<"Installing board">>
                /\ source' = board_repo
                /\ pc' = "idle"
                /\ boards_pc' = "installing"
                /\ UNCHANGED temp_dir
           ELSE /\ boards_did' = <<"requests.get", "TemporaryDirectory">>
                /\ boards_out' = <<"Installing board">>
                /\ temp_dir' = "exists"
                /\ boards_pc' = "clone"
                /\ UNCHANGED <<source, pc>>
    /\ UNCHANGED <<board_index, board_repo, packages, platforms, scanVars, all, force,
                   versions, out, calls, answers, second, prev, notBoards>>

\* motorgo/cli.py install, lines 194-206: git clone into the temporary
\* directory, and the call of board_install.install on what is there. A clone
\* that exits non-zero is reported and the empty directory is used; git that
\* cannot be started raises an OSError, which is not caught.
BoardsClone ==
    /\ boards_pc = "clone"
    /\ \E outcome \in {"exit 0", "exit 128", "OSError"} :
           CASE outcome = "exit 0" ->
                    /\ boards_did' = boards_did \o <<"git clone", "board_install.install">>
                    /\ source' = board_repo
                    /\ pc' = "idle"
                    /\ boards_pc' = "installing"
                    /\ UNCHANGED boards_out
             [] outcome = "exit 128" ->
                    /\ boards_did' = boards_did \o <<"git clone failed", "board_install.install">>
                    /\ boards_out' = Append(boards_out, "Error: Failed to clone repository")
                    /\ source' = NoSource
                    /\ pc' = "idle"
                    /\ boards_pc' = "installing"
             [] OTHER ->
                    /\ boards_did' = Append(boards_did, "git clone failed")
                    /\ boards_pc' = "raised"
                    /\ UNCHANGED <<boards_out, source, pc>>
    /\ UNCHANGED <<boards_args, board_index, board_repo, temp_dir, packages, platforms,
                   scanVars, all, force, versions, out, calls, answers, second, prev,
                   notBoards>>

\* motorgo/cli.py install, lines 206-209: board_install.install has returned
\* and the temporary directory is cleaned up, or it has raised.
BoardsInstallEnd ==
    /\ boards_pc = "installing"
    /\ pc \in {"returned", "done", "raised"}
    /\ IF pc = "raised"
       THEN /\ boards_pc' = "raised"
            /\ UNCHANGED <<temp_dir, boards_did>>
       ELSE /\ boards_pc' = "done"
            /\ temp_dir' = IF temp_dir = "exists" THEN "cleaned" ELSE temp_dir
            /\ boards_did' = IF temp_dir = "exists"
                             THEN Append(boards_did, "temp_dir.cleanup")
                             ELSE boards_did
    /\ UNCHANGED <<boards_args, board_index, board_repo, boards_out,
                   fsVars, scanVars, runVars, notBoards>>

\* tempfile.TemporaryDirectory(), line 191: the object carries a finalizer
\* that removes the directory when the object is collected or the interpreter
\* exits, which is all that is left once an exception has taken the command
\* past its own cleanup() call.
TempDirFinalize ==
    /\ boards_pc = "raised"
    /\ temp_dir = "exists"
    /\ temp_dir' = "cleaned"
    /\ boards_did' = Append(boards_did, "temp_dir finalizer")
    /\ boards_pc' = "exited"
    /\ UNCHANGED <<boards_args, board_index, board_repo, boards_out,
                   fsVars, scanVars, runVars, notBoards>>

\* ------------------------------------- specification: `boards install`
\* The command on an index of up to two boards and a repository holding the
\* board or not, with at most one installed version of each package.
BoardNames == {"motorgo_plink", "motorgo_axis"}
BoardIndexes ==
    {<<>>, <<[identifier |-> "motorgo_plink"]>>,
     <<[identifier |-> "motorgo_axis"], [identifier |-> "motorgo_plink"]>>}

InitBoards ==
    /\ packages \in {d \in InstallDirs(FRAMEWORK_NAME, InstallPackageNodes) :
                         Cardinality(Names(d)) <= 1 /\ Names(d) \subseteq {<<FRAMEWORK_NAME>>}}
    /\ platforms \in {d \in InstallDirs(PLATFORM_NAME, InstallPlatformNodes) :
                          Cardinality(Names(d)) <= 1 /\ Names(d) \subseteq {<<PLATFORM_NAME>>}}
    /\ source = NoSource
    /\ framework_versions = NotScanned
    /\ platform_versions = NotScanned
    /\ all \in BOOLEAN
    /\ force \in BOOLEAN
    /\ pc = "not called"
    /\ versions = <<>>
    /\ out = <<>>
    /\ calls = <<>>
    /\ answers = [framework |-> NoAnswer, platform |-> NoAnswer]
    /\ second = FALSE
    /\ prev = NoPrev
    /\ boards_pc = "idle"
    /\ boards_args = NoBoardsArgs
    /\ board_index \in BoardIndexes
    /\ board_repo \in InstallSources
    /\ temp_dir = "none"
    /\ boards_did = <<>>
    /\ boards_out = <<>>
    /\ NotBoardsIdle

NextBoards ==
    \/ \E board_name \in BoardNames, custom_board_path \in BOOLEAN :
           BoardsInstallBegin(board_name, custom_board_path)
    \/ BoardsClone
    \/ InstallBegin
    \/ FrameworkCopy
    \/ PlatformSelect
    \/ PlatformCopy
    \/ InstallFinish
    \/ BoardsInstallEnd
    \/ TempDirFinalize

SpecBoards == InitBoards /\ [][NextBoards]_vars

\* ------------------------------------------------- gh: the repository cache
\* `not repo_list`: None and the empty list are both false.
is_falsy(list) == list.none \/ list.repos = <<>>

\* repos.extend(response.json()) over the pages 1 .. n, in order.
RECURSIVE extend_pages(_, _)
extend_pages(pages, n) ==
    IF n = 0 THEN <<>> ELSE extend_pages(pages, n - 1) \o pages[n]

\* _get_all_repos as it would be if the pages accumulated so far were stored
\* in the cache when a page request fails.
get_all_repos_partial(list, pages, fail_at) ==
    IF ~is_falsy(list)
    THEN [requests |-> 0, raised |-> FALSE, wrote |-> FALSE,
          repo_list |-> list, returned |-> list.repos]
    ELSE IF fail_at \in 1..Len(pages)
    THEN [requests |-> fail_at, raised |-> TRUE, wrote |-> TRUE,
          repo_list |-> [none |-> FALSE, repos |-> extend_pages(pages, fail_at - 1)],
          returned |-> <<>>]
    ELSE LET repos == extend_pages(pages, Len(pages))
         IN [requests |-> Len(pages), raised |-> FALSE, wrote |-> TRUE,
             repo_list |-> [none |-> FALSE, repos |-> repos], returned |-> repos]

\* _get_all_repos(org) on the cache `list` when the listing of org has the
\* given pages and the request for page fail_at (0 for none) gets an HTTP
\* error: the requests made, whether raise_for_status raised, the cache after,
\* and the list returned.
get_all_repos(list, pages, fail_at) ==
    IF ~is_falsy(list)
    THEN [requests |-> 0, raised |-> FALSE, wrote |-> FALSE,
          repo_list |-> list, returned |-> list.repos]
    ELSE IF fail_at \in 1..Len(pages)
    THEN [requests |-> fail_at, raised |-> TRUE, wrote |-> FALSE,
          repo_list |-> list, returned |-> <<>>]
    ELSE LET repos == extend_pages(pages, Len(pages))
         IN [requests |-> Len(pages), raised |-> FALSE, wrote |-> TRUE,
             repo_list |-> [none |-> FALSE, repos |-> repos], returned |-> repos]

\* A call _get_all_repos(org).
GetAllRepos(org) ==
    /\ Len(repo_calls) < MaxRepoCalls
    /\ \E fail_at \in 0..Len(gh_remote[org]) :
           LET r == get_all_repos(repo_list, gh_remote[org], fail_at)
           IN /\ repo_list' = r.repo_list
              /\ repo_calls' = Append(repo_calls,
                     [org |-> org, requests |-> r.requests, raised |-> r.raised,
                      wrote |-> r.wrote, returned |-> r.returned])
    /\ UNCHANGED <<gh_remote, notRepos>>

\* ------------------------------------ specification: the repository cache
\* Two organizations; a listing has 1 .. MaxPages pages, the first of which may
\* be empty (an organization without repositories).
Orgs == {"Every-Flavor-Robotics", "other"}
RECURSIVE PagesOf(_, _)
PagesOf(org, n) ==
    IF n = 0 THEN <<>> ELSE Append(PagesOf(org, n - 1), <<<<org, ToString(n)>>>>)
Listings(org) == {<<<<>>>>} \cup {PagesOf(org, n) : n \in 1..MaxPages}

InitRepos ==
    /\ repo_list = None
    /\ gh_remote \in {[org \in Orgs |-> IF org = "other" THEN l2 ELSE l1] :
                          l1 \in Listings("Every-Flavor-Robotics"), l2 \in Listings("other")}
    /\ repo_calls = <<>>
    /\ NotReposIdle

NextRepos == \E org \in Orgs : GetAllRepos(org)

SpecRepos == InitRepos /\ [][NextRepos]_vars

\* ---------------------------------------------------- gh: init and clone
\* The state of a running gh command: the worktree, what was asked and run,
\* what was printed, the files created, and whether it goes on.
Running(wt) == [wt |-> wt, did |-> <<>>, out |-> <<>>, created |-> {}, pc |-> "running"]
Do(st, op, arg) == [st EXCEPT !.did = Append(@, Did(op, arg))]
Echo(st, text) == [st EXCEPT !.out = Append(@, text)]
Raise(st, exception, message) ==
    [Do(st, "raise", <<exception, message>>) EXCEPT !.pc = "raised"]
\* Path.write_text on a file of the repository root.
write_text(st, file) ==
    [st EXCEPT !.wt.files[file] = "new", !.created = @ \cup {file}]

no_repository_continue(st) == Echo(st, "Initializing repository in")

\* init, lines 145-148: rev-parse exited non-zero.
no_repository(st) ==
    Raise(st, "FileNotFoundError",
          "No git repository found. Please run this command in the git repository you want to set up.")

\* init, lines 136-150: the root of the repository is asked of git.
find_repo_root(st, in) ==
    IF ~in.git
    THEN Raise(Do(st, "git rev-parse", <<"OSError">>), "FileNotFoundError", "git")
    ELSE IF ~st.wt.is_repo
    THEN no_repository(Do(st, "git rev-parse", <<"exit 128">>))
    ELSE Echo(Do(st, "git rev-parse", <<"exit 0">>), "Initializing repository in")

\* init, lines 152-165: README.md
setup_readme(st, in) ==
    LET exists == st.wt.files["README.md"] # "absent"
        asked == IF exists
                 THEN Do(st, "click.confirm",
                         <<"README.md already exists", IF in.overwrite THEN "y" ELSE "n">>)
                 ELSE st
    IN IF ~exists \/ in.overwrite
       THEN LET prompted == Do(Do(Do(asked, "click.prompt", <<"name">>),
                                  "click.prompt", <<"description">>),
                               "click.prompt", <<"emoji">>)
            IN Echo(write_text(prompted, "README.md"), "README.md created successfully.")
       ELSE Echo(asked, "Skipping README setup.")

\* init, lines 167-178: LICENSE. A cancelled prompt returns None, which is not
\* "none"; create_license raises when the request cannot be made.
setup_license(st, in) ==
    LET asked == Do(st, "questionary.select", <<in.project_type>>)
    IN IF in.project_type # "none"
       THEN IF ~in.license_fetched
            THEN Raise(asked, "requests.ConnectionError", "license")
            ELSE Echo(write_text(asked, "LICENSE"), "LICENSE created successfully.")
       ELSE asked

\* init, lines 180-191: .gitignore. Nothing selected and a cancelled prompt
\* both skip it.
setup_gitignore(st, in) ==
    LET asked == Do(st, "questionary.checkbox", <<>>)
    IN IF ~in.cancelled /\ in.selected_templates # {}
       THEN IF ~in.gitignore_fetched
            THEN Raise(asked, "requests.ConnectionError", "gitignore")
            ELSE Echo(write_text(asked, ".gitignore"), ".gitignore created successfully.")
       ELSE asked

\* The staging as it would be if every file were added, created or not.
git_add_always(st, file) ==
    [Do(st, "git add", <<file>>) EXCEPT !.wt.staged = @ \cup {file}]

\* subprocess.run(["git", "add", file], cwd=repo_root)
git_add(st, file) ==
    IF file \in st.created
    THEN [Do(st, "git add", <<file>>) EXCEPT !.wt.staged = @ \cup {file}]
    ELSE st

\* init, line 205: printed after subprocess.run, whose result is not looked at.
report_commit(st, exit) == Echo(st, "Changes committed successfully.")

\* init, lines 193-205: the commit.
commit_changes(st, in) ==
    LET asked == Do(st, "click.confirm",
                    <<"commit these changes", IF in.commit THEN "y" ELSE "n">>)
    IN IF in.commit
       THEN LET added == git_add(git_add(git_add(asked, "README.md"), "LICENSE"), ".gitignore")
                ran == Do(added, "git commit", <<in.commit_exit>>)
                after == IF in.commit_exit = "exit 0"
                         THEN [ran EXCEPT !.wt.staged = {}, !.wt.commits = @ + 1]
                         ELSE ran
            IN report_commit(after, in.commit_exit)
       ELSE asked

\* init(): the steps in order, each only if none before it raised.
gh_init(wt, in) ==
    LET s1 == find_repo_root(Running(wt), in)
        s2 == IF s1.pc = "running" THEN setup_readme(s1, in) ELSE s1
        s3 == IF s2.pc = "running" THEN setup_license(s2, in) ELSE s2
        s4 == IF s3.pc = "running" THEN setup_gitignore(s3, in) ELSE s3
        s5 == IF s4.pc = "running" THEN commit_changes(s4, in) ELSE s4
    IN [s5 EXCEPT !.pc = IF @ = "running" THEN "done" ELSE @]

\* What git and the user answer during one run of init.
InitInputs ==
    [git : BOOLEAN, overwrite : BOOLEAN,
     project_type : {"hardware", "software", "none", "cancelled"},
     license_fetched : BOOLEAN,
     cancelled : BOOLEAN, selected_templates : SUBSET {"Python"},
     gitignore_fetched : BOOLEAN,
     commit : BOOLEAN, commit_exit : {"exit 0", "exit 1"}]

\* `efr gh init`
GhInit ==
    /\ gh_pc = "idle"
    /\ \E in \in InitInputs :
           LET r == gh_init(worktree, in)
           IN /\ worktree' = r.wt
              /\ gh_did' = <<Did("gh", <<"init">>)>> \o r.did
              /\ gh_out' = r.out
              /\ gh_pc' = r.pc
    /\ UNCHANGED notGit

\* clone(repo, ssh), lines 282-291: the URL, as its parts.
clone_url(repo, ssh) ==
    IF ssh THEN <<"git@github.com:", "Every-Flavor-Robotics/", repo, ".git">>
    ELSE <<"https://github.com/", "Every-Flavor-Robotics/", repo, ".git">>

\* `efr gh clone <repo> [--ssh]`: git exits 0, exits non-zero with a message on
\* stderr, or cannot be started.
GhClone(repo, ssh) ==
    /\ gh_pc = "idle"
    /\ \E outcome \in {"exit 0", "exit 128", "OSError"} :
           LET ran == <<Did("gh", <<"clone">>), Did("git clone", clone_url(repo, ssh)),
                        Did("returncode", <<outcome>>)>>
           IN CASE outcome = "exit 0" ->
                       /\ gh_did' = ran
                       /\ gh_out' = <<"Cloning repository", "cloned successfully.">>
                       /\ gh_pc' = "done"
                [] outcome = "exit 128" ->
                       /\ gh_did' = ran
                       /\ gh_out' = <<"Cloning repository", "Failed to clone repository",
                                      "    stderr">>
                       /\ gh_pc' = "done"
                [] OTHER ->
                       /\ gh_did' = ran
                       /\ gh_out' = <<"Cloning repository">>
                       /\ gh_pc' = "raised"
    /\ UNCHANGED <<worktree, notGit>>

\* ------------------------------------ specification: gh init and gh clone
\* The command runs inside a repository or outside one; each of the three files
\* is there already or not.
Worktrees ==
    [is_repo : BOOLEAN,
     files : [{"README.md", "LICENSE", ".gitignore"} -> {"absent", "old"}],
     staged : {{}}, commits : {0}]

InitGit ==
    /\ worktree \in Worktrees
    /\ gh_pc = "idle"
    /\ gh_did = <<>>
    /\ gh_out = <<>>
    /\ NotGitIdle

NextGit ==
    \/ GhInit
    \/ \E repo \in {"efr", "missing"}, ssh \in BOOLEAN : GhClone(repo, ssh)

SpecGit == InitGit /\ [][NextGit]_vars

\* -------------------------------------------------------------- gh: togprot
https_prefix == "https://github.com/"
ssh_prefix == "git@github.com:"

\* A text is the sequence of its pieces; each prefix is one piece and "\n" is
\* the newline that ends git's output.
\* `prefix in text`.
contains(text, prefix) == \E i \in DOMAIN text : text[i] = prefix

\* str.startswith(prefix).
startswith(text, prefix) == Len(text) > 0 /\ text[1] = prefix
\* str.replace(old, new): every occurrence of old becomes new.
replace(text, old, new) ==
    [i \in DOMAIN text |-> IF text[i] = old THEN new ELSE text[i]]
\* str.strip(): the whitespace at both ends goes.
RECURSIVE strip(_)
strip(text) ==
    IF text = <<>> THEN text
    ELSE IF text[1] = "\n" THEN strip(Tail(text))
    ELSE IF text[Len(text)] = "\n" THEN strip(SubSeq(text, 1, Len(text) - 1))
    ELSE text

\* toggle_protocol() on the remote, when git can or cannot be started and
\* `git remote set-url` exits with set_url: the remote after, the
\* subprocesses run, and what was printed.
toggle_protocol(remote, git, set_url) ==
    IF git = "missing"
    THEN [origin |-> remote, out |-> <<>>,
          did |-> <<Did("raise", <<"FileNotFoundError">>)>>]
    ELSE IF ~remote.exists
    THEN [origin |-> remote,
          did |-> <<Did("git remote get-url origin", <<"exit 2">>)>>,
          out |-> <<"Failed to get the remote URL. Make sure you are in a github repo.">>]
    ELSE LET stdout == remote.url \o <<"\n">>
             got == Did("git remote get-url origin", <<"exit 0">> \o stdout)
             current_url == strip(stdout)
             to_ssh == startswith(current_url, https_prefix)
             to_https == ~to_ssh /\ startswith(current_url, ssh_prefix)
             new_url == IF to_ssh THEN replace(current_url, https_prefix, ssh_prefix)
                        ELSE replace(current_url, ssh_prefix, https_prefix)
             new_protocol == IF to_ssh THEN "ssh" ELSE "https"
         IN IF ~to_ssh /\ ~to_https
            THEN [origin |-> remote, did |-> <<got>>, out |-> <<"Unsupported URL format.">>]
            ELSE IF set_url = "exit 0"
            THEN [origin |-> [remote EXCEPT !.url = new_url],
                  did |-> <<got, Did("git remote set-url origin", <<set_url>> \o new_url)>>,
                  out |-> <<"Protocol updated successfully to", new_protocol>>]
            ELSE [origin |-> remote,
                  did |-> <<got, Did("git remote set-url origin", <<set_url>> \o new_url)>>,
                  out |-> <<"Failed to update the protocol.">>]

\* The runs of `gh togprot` so far.
Toggles == Cardinality({i \in DOMAIN togprot_did : togprot_did[i] = Did("gh", <<"togprot">>)})

\* `efr gh togprot`.
GhTogprot ==
    /\ Toggles < MaxToggles
    /\ \E git \in {"installed", "missing"}, set_url \in {"exit 0", "exit 128"} :
           LET r == toggle_protocol(origin, git, set_url)
           IN /\ origin' = r.origin
              /\ togprot_did' = togprot_did \o <<Did("gh", <<"togprot">>)>> \o r.did
              /\ togprot_out' = togprot_out \o r.out
    /\ UNCHANGED notRemote

\* ---------------------------------------------- specification: gh togprot
\* There is no remote `origin`, or its URL is made of 1 .. MaxUrl pieces, each
\* one of the two prefixes or some other text.
UrlPieces == {https_prefix, ssh_prefix, "owner/repo.git"}
Remotes ==
    {NoRemote} \cup {[exists |-> TRUE, url |-> u] : u \in SeqsUpTo(UrlPieces, MaxUrl) \ {<<>>}}

InitRemote ==
    /\ origin \in Remotes
    /\ togprot_did = <<>>
    /\ togprot_out = <<>>
    /\ NotRemoteIdle

NextRemote == GhTogprot

SpecRemote == InitRemote /\ [][NextRemote]_vars

\* ---------------------------------------------------------- plugins: init
\* A directory is a function from the paths under it to what is there: "dir",
\* or the content of a file, "empty" after touch() and "rendered" after a
\* template was written. A regular file is the one path <<>>.
plugin_dir_name(name) == <<"efr-", name>>
Skeleton(name) ==
    {<<name>>, <<name, "__init__.py">>, <<name, "cli.py">>,
     <<"setup.py">>, <<"README.md">>, <<"install.sh">>}
Entries(tree) == DOMAIN tree

\* create_new_plugin_project as it would be without the test for an existing
\* directory and with mkdir(exist_ok=True): what is missing is created, what
\* is there is kept.
create_new_plugin_project_merge(parent, name) ==
    LET plugin_dir == plugin_dir_name(name)
        old == IF plugin_dir \in DOMAIN parent.kids THEN parent.kids[plugin_dir] ELSE <<>>
        made == [p \in (Entries(old) \ {<<>>}) \cup Skeleton(name) |->
                    IF p \in Entries(old) THEN old[p]
                    ELSE IF p = <<name>> THEN "dir" ELSE "empty"]
    IN [state |-> "ok",
        parent |-> [parent EXCEPT !.kids =
            [d \in DOMAIN parent.kids \cup {plugin_dir} |->
                IF d = plugin_dir THEN made ELSE parent.kids[d]]]]

\* create_new_plugin_project(path, name): the --path directory after, and the
\* exception raised, if any.
create_new_plugin_project(parent, name) ==
    LET plugin_dir == plugin_dir_name(name)
    IN IF plugin_dir \in DOMAIN parent.kids
       THEN [state |-> "FileExistsError", parent |-> parent]
       ELSE LET made == [p \in Skeleton(name) |-> IF p = <<name>> THEN "dir" ELSE "empty"]
            IN [state |-> "ok",
                parent |-> [parent EXCEPT !.kids =
                    [d \in DOMAIN parent.kids \cup {plugin_dir} |->
                        IF d = plugin_dir THEN made ELSE parent.kids[d]]]]

\* The state of a running `plugins init`.
Initializing(parent) == [parent |-> parent, did |-> <<>>, out |-> <<>>, pc |-> "running"]

\* _init_file(template_path, target_path, ...): the template must exist and
\* the target must have been created; the target gets the rendered text.
init_file(st, name, target, template_exists) ==
    LET plugin_dir == plugin_dir_name(name) IN
    IF st.pc # "running" THEN st
    ELSE IF ~template_exists
    THEN [st EXCEPT !.pc = "raised",
                    !.did = Append(@, Did("raise", <<"FileNotFoundError", "Template file not found">>))]
    ELSE IF target \notin Entries(st.parent.kids[plugin_dir])
    THEN [st EXCEPT !.pc = "raised",
                    !.did = Append(@, Did("raise", <<"FileExistsError", "already exists">>))]
    ELSE [st EXCEPT !.parent.kids[plugin_dir][target] = "rendered",
                    !.out = Append(@, "initialized for plugin")]

\* init_install_sh: the git details of the new directory are asked of git
\* first; outside a repository that raises.
init_install_sh(st, name, in) ==
    IF st.pc # "running" THEN st
    ELSE IF ~in.in_repo
    THEN [st EXCEPT !.pc = "raised",
                    !.did = Append(@, Did("raise", <<"FileNotFoundError", "No git repository found">>))]
    ELSE init_file(st, name, <<"install.sh">>, in.templates)

\* init_new_plugin(name, path).
init_new_plugin(parent, name, in) ==
    LET st == Initializing(parent) IN
    IF ~parent.exists
    THEN [st EXCEPT !.out = <<"Error: Directory does not exist.">>, !.pc = "returned"]
    ELSE LET asked == [st EXCEPT !.did = <<Did("click.prompt", <<"description">>)>>]
             r == create_new_plugin_project(parent, name)
         IN IF r.state = "FileExistsError"
            THEN [asked EXCEPT !.did = Append(@, Did("except", <<"FileExistsError">>)),
                               !.out = <<"Error: Directory already exists in">>,
                               !.pc = "returned"]
            ELSE LET s0 == [asked EXCEPT !.parent = r.parent]
                     s1 == init_file(s0, name, <<"README.md">>, in.templates)
                     s2 == init_file(s1, name, <<"setup.py">>, in.templates)
                     s3 == init_file(s2, name, <<name, "cli.py">>, in.templates)
                     s4 == init_install_sh(s3, name, in)
                 IN [s4 EXCEPT !.pc = IF @ = "running" THEN "done" ELSE @]

\* The runs of `plugins init` so far.
Inits == Cardinality({i \in DOMAIN newplugin_did : newplugin_did[i].op = "plugins init"})

\* `efr plugins init <name> [--path <path>]`.
PluginsInit(name) ==
    /\ Inits < MaxInits
    /\ \E in \in [templates : BOOLEAN, in_repo : BOOLEAN] :
           LET r == init_new_plugin(plugin_parent, name, in)
           IN /\ plugin_parent' = r.parent
              /\ newplugin_did' = newplugin_did \o <<Did("plugins init", <<name>>)>> \o r.did
                                       \o <<Did("ended", <<r.pc>>)>>
              /\ newplugin_out' = newplugin_out \o r.out
    /\ UNCHANGED notNewPlugin

\* ---------------------------------------- specification: plugins init
\* The --path directory is missing, or holds for each of the two names
\* nothing, a regular file, an empty directory, a directory with a README.md
\* only, or a whole project written earlier.
NewPluginNames == {"awesome", "other"}
OldTrees(name) ==
    {[p \in {<<>>} |-> "old"],
     [p \in {} |-> "old"],
     [p \in {<<"README.md">>} |-> "old"],
     [p \in Skeleton(name) |-> IF p = <<name>> THEN "dir" ELSE "old"]}
Parents ==
    {NoParent} \cup
    UNION {{[exists |-> TRUE, kids |-> [d \in {plugin_dir_name(n) : n \in N} |-> f[d[2]]]] :
               f \in {g \in [N -> UNION {OldTrees(n) : n \in N}] : \A n \in N : g[n] \in OldTrees(n)}} :
           N \in SUBSET NewPluginNames}

InitNewPlugin ==
    /\ plugin_parent \in Parents
    /\ newplugin_did = <<>>
    /\ newplugin_out = <<>>
    /\ NotNewPluginIdle

NextNewPlugin == \E name \in NewPluginNames : PluginsInit(name)

SpecNewPlugin == InitNewPlugin /\ [][NextNewPlugin]_vars

\* ================================================================= claims
\* What the statements below say of a scan, written without the scanner's
\* own operators.
IsVersionedName(n, pkg) == Len(n) >= 2 /\ SubSeq(n, 1, 2) = <<pkg, "@">>
Matching(dir, pkg) == {n \in Names(dir) : n = <<pkg>> \/ IsVersionedName(n, pkg)}
\* The label of a child: "latest" for <pkg>, else the text after the last "@".
TextAfterLastAt(n, pkg) ==
    IF n = <<pkg>> THEN <<"latest">>
    ELSE LET i == CHOOSE k \in 1..Len(n) : n[k] = "@" /\ \A j \in (k + 1)..Len(n) : n[j] # "@"
         IN [j \in 1..(Len(n) - i) |-> n[i + j]]
KeySet(r) == {r.keys[i] : i \in 1..Len(r.keys)}
NoRepeatedKey(r) == \A i, j \in 1..Len(r.keys) : r.keys[i] = r.keys[j] => i = j

OneEntryPerChild(r, dir, pkg) ==
    r.state = "ok" =>
        /\ NoRepeatedKey(r)
        /\ Len(r.keys) = Cardinality(Matching(dir, pkg))
        /\ \A n \in Matching(dir, pkg) :
               /\ TextAfterLastAt(n, pkg) \in KeySet(r)
               /\ r.val[TextAfterLastAt(n, pkg)] = n
        /\ \A k \in KeySet(r) : \E n \in Matching(dir, pkg) : k = TextAfterLastAt(n, pkg)

\* C1 as stated: a scan returns exactly one entry per child named <pkg> (label
\* "latest") or <pkg>@<version> (label the text after the "@", read here as
\* the last "@" of the name), mapped to that child, and no entry for any other
\* child.
C1_OneEntryPerChild ==
    /\ OneEntryPerChild(platform_versions, platforms, PLATFORM_NAME)
    /\ OneEntryPerChild(framework_versions, packages, FRAMEWORK_NAME)

OneEntryPerLabel(r, dir, pkg) ==
    r.state = "ok" =>
        LET M == Matching(dir, pkg) IN
        /\ NoRepeatedKey(r)
        /\ KeySet(r) = {TextAfterLastAt(n, pkg) : n \in M}
        /\ DOMAIN r.val = KeySet(r)
        /\ \A k \in KeySet(r) : r.val[k] \in M /\ TextAfterLastAt(r.val[k], pkg) = k
        /\ (\A m, n \in M : TextAfterLastAt(m, pkg) = TextAfterLastAt(n, pkg) => m = n)
               => /\ Len(r.keys) = Cardinality(M)
                  /\ \A n \in M : r.val[TextAfterLastAt(n, pkg)] = n

\* C1 amended: a scan returns exactly one entry per label, where <pkg> has the
\* label "latest" and <pkg>@<rest> the text after its last "@"; each label is
\* mapped to a child that has it, no other child gives an entry, and when the
\* labels of the children differ there is exactly one entry per child.
C1_OneEntryPerLabel ==
    /\ OneEntryPerLabel(platform_versions, platforms, PLATFORM_NAME)
    /\ OneEntryPerLabel(framework_versions, packages, FRAMEWORK_NAME)

\* C1 witness: a scan of <pkg>, <pkg>@1 and an unrelated "other" has returned
\* the two entries "latest" and "1".
C1_Witness ==
    /\ platform_versions.state = "ok"
    /\ Names(platforms) = {<<PLATFORM_NAME>>, <<PLATFORM_NAME, "@", "1">>, <<"other">>}
    /\ platform_versions.keys = <<<<"latest">>, <<"1">>>>

ScanOutcome(r, dir, pkg) ==
    /\ r.state # "none" /\ ~dir.exists => r.state = "raised" /\ r.keys = <<>> /\ r.val = <<>>
    /\ r.state # "none" /\ dir.exists /\ Matching(dir, pkg) = {}
           => r.state = "ok" /\ r.keys = <<>> /\ r.val = <<>>

\* C2: a scan of a base directory that does not exist ends in an error and
\* returns no mapping; a scan of an existing base directory with no matching
\* child returns the empty mapping and no error.
C2_MissingBaseRaises ==
    /\ ScanOutcome(platform_versions, platforms, PLATFORM_NAME)
    /\ ScanOutcome(framework_versions, packages, FRAMEWORK_NAME)

\* C2 witness: both cases have happened, the packages directory missing and
\* the platforms directory holding only an unrelated child.
C2_Witness ==
    /\ ~packages.exists /\ framework_versions.state = "raised"
    /\ platforms.exists /\ Names(platforms) = {<<"other">>}
    /\ platform_versions.state = "ok" /\ platform_versions.keys = <<>>

HasPrinted(text, v) == \E j \in 1..Len(out) : out[j] = [text |-> text, about |-> v]

\* C3: a copy_framework_files call with force = false whose destination
\* variants/<board> already existed left the versioned directory as it was and
\* printed the skip warning.
C3_SkipLeavesVariant ==
    \A i \in 1..Len(calls) :
        calls[i].fn = "copy_framework_files" /\ calls[i].existed /\ ~force
            => /\ ~calls[i].changed
               /\ calls[i].result = "skipped"
               /\ HasPrinted("Variant already exists. Use --force to overwrite.",
                             calls[i].version)

\* C3 witness: such a call was made on a destination that differs from the
\* source, and the destination still differs.
C3_Witness ==
    /\ ~force
    /\ \E i \in 1..Len(calls) :
           /\ calls[i].fn = "copy_framework_files" /\ calls[i].existed
           /\ calls[i].result = "skipped" /\ ~calls[i].matches
           /\ packages.kids[calls[i].path].board # source.variant

\* C4: a copy_framework_files call with force = true whose destination already
\* existed ended with the destination holding exactly the files of the source
\* variant directory.
C4_ForceReplacesVariant ==
    \A i \in 1..Len(calls) :
        calls[i].fn = "copy_framework_files" /\ calls[i].existed /\ force
            => /\ calls[i].result = "overwritten"
               /\ calls[i].matches
               /\ packages.kids[calls[i].path].board = source.variant

\* C4 witness: the destination held a file the source has not, and the call
\* with force has replaced the directory.
C4_Witness ==
    /\ force
    /\ \E i \in 1..Len(calls) :
           /\ calls[i].fn = "copy_framework_files" /\ calls[i].existed
           /\ calls[i].changed /\ calls[i].matches
           /\ \E f \in Files : source.variant.files[f] = 0
           /\ packages.kids[calls[i].path].board = source.variant

\* C5: copy_platform_files treats an existing boards/<board>.json as
\* copy_framework_files treats an existing variant: with force = false the
\* existing file is left unchanged (and a skip warning is printed); it is
\* replaced only with force = true. The formula states the frame part: no call
\* with force = false changed a file that existed.
C5_SkipLeavesJson ==
    \A i \in 1..Len(calls) :
        calls[i].fn = "copy_platform_files" /\ calls[i].existed /\ ~force
            => ~calls[i].changed

SourceOK == source.variant.exists /\ source.json # 0
Terminal == pc \in {"returned", "raised", "done"}

\* The versions the calls of fn were made for, in the order of the calls.
RECURSIVE CallVersions(_, _)
CallVersions(cs, fn) ==
    IF cs = <<>> THEN <<>>
    ELSE (IF Head(cs).fn = fn THEN <<Head(cs).version>> ELSE <<>>)
             \o CallVersions(Tail(cs), fn)

\* C6: with the source variant directory or the source JSON file missing,
\* install ends by reporting which one is missing and no step creates or
\* changes anything under packages or platforms, whatever --all and --force.
C6_MissingSourceNoCopy ==
    [][~SourceOK =>
           /\ packages' = packages
           /\ platforms' = platforms
           /\ calls' = <<>>
           /\ pc = "idle" =>
                  /\ pc' = "returned"
                  /\ out' = Say(IF ~source.variant.exists
                                THEN "Variant path not found"
                                ELSE "Board JSON file not found")]_vars

\* C6 witness: install --all --force has returned for a missing JSON file, with
\* an installed framework and an installed platform it could have copied into.
C6_Witness ==
    /\ pc = "returned" /\ all /\ force
    /\ source.variant.exists /\ source.json = 0
    /\ out = Say("Board JSON file not found")
    /\ \E n \in Names(packages) : packages.kids[n].variants
    /\ \E n \in Names(platforms) : platforms.kids[n].boards

\* C7: the second of two runs with the same inputs changes nothing; with
\* force = false every copy of the second run takes the skip branch, with
\* force = true none does and the file system ends as the first run left it.
C7_SecondRunSkipsAll ==
    pc = "done" /\ second =>
        /\ packages = prev.packages
        /\ platforms = prev.platforms
        /\ \A i \in 1..Len(calls) :
               IF force THEN calls[i].result # "skipped" ELSE calls[i].result = "skipped"

SelectedFramework ==
    IF all THEN framework_versions.keys
    ELSE Pick(framework_versions.keys, answers.framework.picked)
SelectedPlatform ==
    IF all THEN platform_versions.keys
    ELSE Pick(platform_versions.keys, answers.platform.picked)

\* A turn of the framework loop whose destination exists, without force.
SkipTurn ==
    /\ pc = "framework_copy" /\ versions # <<>> /\ ~force
    /\ Head(versions) \in DOMAIN framework_versions.val
    /\ LET node == packages.kids[framework_versions.val[Head(versions)]]
       IN node.variants /\ node.board.exists

\* While install runs, the calls made and the versions still to loop over are
\* together the versions selected.
AttemptsFollowSelection ==
    /\ pc = "framework_copy" =>
           CallVersions(calls, "copy_framework_files") \o versions = SelectedFramework
    /\ pc \in {"platform_copy", "done"} =>
           /\ CallVersions(calls, "copy_framework_files") = SelectedFramework
           /\ CallVersions(calls, "copy_platform_files") \o versions = SelectedPlatform

\* C8: a skipped destination is not fatal: the turn of the loop that finds the
\* destination present (force = false) goes on to the next selected framework
\* version, and a run that reaches the platform loop or the end has called the
\* copy for every selected framework version and calls it for every selected
\* platform version.
C8_SkipIsNotFatal ==
    /\ [][SkipTurn => pc' = "framework_copy" /\ versions' = Tail(versions)]_vars
    /\ []AttemptsFollowSelection

\* C8 witness: a run without force has ended after a skipped framework
\* version, a later framework version and a platform version.
C8_Witness ==
    /\ pc = "done" /\ ~force
    /\ \E i, j, k \in 1..Len(calls) :
           /\ i < j /\ j < k
           /\ calls[i].fn = "copy_framework_files" /\ calls[i].result = "skipped"
           /\ calls[j].fn = "copy_framework_files"
           /\ calls[k].fn = "copy_platform_files"

\* The platform versions that have received the board JSON in this run.
PlatformReceived ==
    {calls[i].version : i \in {k \in 1..Len(calls) :
        calls[k].fn = "copy_platform_files" /\ calls[k].result \in {"copied", "overwritten"}}}

\* C9 as stated, for --all: whatever the framework scan finds, the platform
\* versions that receive the JSON are those of the platform scan. (The
\* directories are such that no copy raises.)
C9_PlatformIndependent ==
    /\ Terminal /\ SourceOK /\ all
    /\ packages.exists /\ \A n \in Names(packages) : packages.kids[n].variants
    /\ platforms.exists /\ \A n \in Names(platforms) : platforms.kids[n].boards
    => PlatformReceived = {TextAfterLastAt(n, PLATFORM_NAME) :
                              n \in Matching(platforms, PLATFORM_NAME)}

\* Two names that differ at most in the case of their letters.
SameLetter(c, d) ==
    c = d \/ {c, d} \in {{"a", "A"}, {"b", "B"}, {"e", "E"}, {"f", "F"}, {"r", "R"}}
EqualIgnoringCase(x, y) == Len(x) = Len(y) /\ \A i \in 1..Len(x) : SameLetter(x[i], y[i])
\* Is a package named efr-X, compared case-insensitively, installed.
HasEfrPackage(X) ==
    \E p \in working_set : EqualIgnoringCase(p, <<"e", "f", "r", "-">> \o X)
Listed(list, X) == Cardinality({i \in 1..Len(list) : list[i][1] = X})

\* C10: `plugins list` puts every registry entry X in exactly one of the two
\* lists, the installed list iff a package named efr-X (compared
\* case-insensitively) is installed, and is_plugin_installed(X) answers the same.
C10_ListClassifies ==
    /\ plugins_pc = "listed" =>
           /\ \A i \in 1..Len(plugin_registry) :
                  LET X == plugin_registry[i].name IN
                  /\ Listed(installed_list, X) + Listed(uninstalled_list, X) = 1
                  /\ Listed(installed_list, X) = 1 <=> HasEfrPackage(X)
           /\ Len(installed_list) + Len(uninstalled_list) = Len(plugin_registry)
    /\ is_installed.state = "returned" =>
           is_installed.result = HasEfrPackage(is_installed.name)

\* C10 witness: a registry of two entries has been listed, one installed
\* through a package whose name differs in case, the other not installed, and
\* is_plugin_installed has answered for the installed one.
C10_Witness ==
    /\ plugins_pc = "listed"
    /\ Len(installed_list) = 1 /\ Len(uninstalled_list) = 1
    /\ efr_package(installed_list[1][1]) \notin working_set
    /\ is_installed.state = "returned" /\ is_installed.result
    /\ is_installed.name = installed_list[1][1]

\* What `plugins install` did under the name op, and what was printed.
InstallDid(op) == \E i \in 1..Len(install_did) : install_did[i].op = op
InstallEnded == install_pc \in {"returned", "raised", "done"}

\* C11: whatever the install-script subprocess does (exit 0, non-zero exit, or
\* not starting at all), the temporary script file install_plugin wrote is gone
\* when install_plugin ends, and it is never left behind by a finished run.
C11_ScriptFileRemoved ==
    InstallEnded => script_file = "absent"

\* C11 witness: the script file was written, the script exited non-zero, and
\* the file has been removed by install_plugin itself.
C11_Witness ==
    /\ install_pc = "done"
    /\ InstallDid("write_script") /\ InstallDid("os.remove")
    /\ "Error running install script" \in Range(install_out)
    /\ script_file = "absent"

\* C14: when the registry fetch fails, `plugins list` and `plugins install`
\* report the error and return without an unhandled exception, and no install
\* script is downloaded or run.
C14_FetchFailureReturns ==
    /\ "Error fetching registry" \in Range(plugins_out) => plugins_pc = "returned"
    /\ "Error fetching registry" \in Range(install_out) =>
           /\ install_pc = "returned"
           /\ ~InstallDid("requests.get") /\ ~InstallDid("subprocess.run")

\* Is X a key of the registry, and the entry under it.
InRegistry(X) == \E i \in 1..Len(plugin_registry) : plugin_registry[i].name = X
EntryOf(X) ==
    plugin_registry[CHOOSE i \in 1..Len(plugin_registry) : plugin_registry[i].name = X].info

\* C19: `plugins install X` runs an install script only if X is a key of the
\* registry, the entry has an install_url, X is not installed or --upgrade was
\* given, and the download succeeded; with X installed and no --upgrade there
\* is no download, no temporary file and no subprocess.
C19_ScriptRunsOnlyWhenDue ==
    LET X == install_args.plugin_name IN
    /\ InstallDid("subprocess.run") =>
           /\ InRegistry(X)
           /\ "install_url" \in DOMAIN EntryOf(X)
           /\ ~HasEfrPackage(X) \/ install_args.upgrade
           /\ InstallDid("requests.get")
           /\ "Error downloading install script" \notin Range(install_out)
    /\ install_pc # "idle" /\ HasEfrPackage(X) /\ ~install_args.upgrade =>
           /\ ~InstallDid("requests.get")
           /\ ~InstallDid("write_script")
           /\ ~InstallDid("subprocess.run")
           /\ script_file = "absent"

\* C19 witness: an installed plugin has been re-installed with --upgrade, and
\* the script has run.
C19_Witness ==
    /\ install_pc = "done"
    /\ HasEfrPackage(install_args.plugin_name) /\ install_args.upgrade
    /\ InstallDid("subprocess.run")
    /\ "installed (or upgraded) successfully!" \in Range(install_out)

\* The module efr/cli.py has been imported to its end.
Composed ==
    \/ root_pc = "loading" /\ to_load = <<>>
    \/ root_pc \in {"invoked", "no such command"}
AllLoad == \A i \in 1..Len(entry_points) : entry_points[i].loads
\* Two loadable entries alpha and beta whose commands carry the same names.
AlphaAndBeta ==
    /\ Len(entry_points) = 2
    /\ {entry_points[1].name, entry_points[2].name} = {"alpha", "beta"}
    /\ AllLoad
    /\ \A i \in 1..2 : entry_points[i].command = entry_points[i].name

\* C12 as stated: with the entries alpha and beta, the composed root has
\* exactly two children, alpha and beta.
C12_ExactlyTwoChildren ==
    Composed /\ AlphaAndBeta => KeySet(root_commands) = {"alpha", "beta"}

\* C12 amended: with loadable entries whose commands have different names,
\* none of them `upgrade`, the children of the composed root are the built-in
\* upgrade and the loaded commands, each under its command's own name, and
\* invoking a name runs the command loaded for it and no other.
C12_ChildrenAreUpgradeAndPlugins ==
    LET n == Len(entry_points)
        distinct == \A i, j \in 1..n :
                        /\ entry_points[i].command # "upgrade"
                        /\ entry_points[i].command = entry_points[j].command => i = j
    IN Composed /\ AllLoad /\ distinct =>
           /\ KeySet(root_commands) = {"upgrade"} \cup {entry_points[i].command : i \in 1..n}
           /\ Len(root_commands.keys) = n + 1
           /\ root_commands.val["upgrade"] = upgrade
           /\ \A i \in 1..n :
                  /\ root_commands.val[entry_points[i].command].from = i
                  /\ root_pc = "invoked" /\ dispatched.name = entry_points[i].command
                         => dispatched.from = i

\* C12 witness: alpha and beta are composed, the root has three children, and
\* `efr beta` has invoked the command loaded from the entry beta.
C12_Witness ==
    /\ AlphaAndBeta /\ root_pc = "invoked"
    /\ Len(root_commands.keys) = 3
    /\ \E i \in 1..2 : entry_points[i].name = "beta" /\ dispatched = Command("beta", i)

\* The entry points the loop has added, and the last command of a name among
\* the built-in upgrade and those.
Added == 1..(Len(entry_points) - Len(to_load))
LastNamed(k) ==
    LET S == {i \in Added : entry_points[i].command = k}
    IN IF S = {} THEN upgrade
       ELSE Command(k, CHOOSE i \in S : \A j \in S : j <= i)

\* C13: whatever commands have been attached, no name appears twice among the
\* children of the root, and a name resolves to the command attached last under
\* it; a collision raises nothing.
C13_LastAttachedWins ==
    root_pc # "idle" =>
        /\ NoRepeatedKey(root_commands)
        /\ KeySet(root_commands) = {"upgrade"} \cup {entry_points[i].command : i \in Added}
        /\ \A k \in KeySet(root_commands) : root_commands.val[k] = LastNamed(k)
        /\ root_pc = "raised" => ~entry_points[Len(entry_points) - Len(to_load) + 1].loads

\* C13 witness: two entries whose commands are both named alpha are loaded,
\* and alpha resolves to the second.
C13_Witness ==
    /\ Composed /\ Len(entry_points) = 2
    /\ entry_points[1].command = "alpha" /\ entry_points[2].command = "alpha"
    /\ root_commands.val["alpha"] = Command("alpha", 2)
    /\ root_commands.keys = <<"upgrade", "alpha">>

\* C20: if one of the discovered entries fails to load, the process never
\* dispatches a command: not a plugin loaded before it, not upgrade.
C20_OneFailureAbortsAll ==
    (\E i \in 1..Len(entry_points) : ~entry_points[i].loads) =>
        /\ ~Composed
        /\ dispatched = NoCommand

\* C20 witness: the second entry failed to load after the first was attached,
\* and the process has ended without dispatching.
C20_Witness ==
    /\ root_pc = "raised"
    /\ Len(entry_points) = 2 /\ Len(to_load) = 1
    /\ Len(root_commands.keys) = 2
    /\ dispatched = NoCommand

\* C15: when the fetch of the board index fails, `motorgo boards install`
\* reports the failure and returns early: no unhandled exception, no clone of
\* the boards repository, nothing copied into a toolchain.
C15_IndexFailureReturns ==
    "requests.get failed" \in Range(boards_did) =>
        /\ boards_pc = "returned"
        /\ Len(boards_out) > 1
        /\ "git clone" \notin Range(boards_did) /\ temp_dir = "none"
        /\ calls = <<>>

\* The calls of _get_all_repos that wrote the cache, and those that fetched
\* the whole listing.
WritingCalls == {i \in 1..Len(repo_calls) : repo_calls[i].wrote}
FetchingCalls ==
    {i \in 1..Len(repo_calls) : repo_calls[i].requests > 0 /\ ~repo_calls[i].raised}

\* C16: in any sequence of _get_all_repos calls the cache is written at most
\* once and the listing is fetched at most once, also when the first fetch
\* returned no repository.
C16_CacheWrittenOnce ==
    /\ Cardinality(WritingCalls) <= 1
    /\ Cardinality(FetchingCalls) <= 1

GhDid(op, arg) == Did(op, arg) \in Range(gh_did)

\* C17: a `git commit` of `gh init` that exits non-zero is surfaced as an error
\* and "Changes committed successfully." is not printed; a `git clone` of
\* `gh clone` that exits non-zero is reported with git's stderr and success is
\* not printed.
C17_GitFailureSurfaced ==
    /\ GhDid("git commit", <<"exit 1">>) =>
           "Changes committed successfully." \notin Range(gh_out)
    /\ GhDid("returncode", <<"exit 128">>) =>
           /\ "cloned successfully." \notin Range(gh_out)
           /\ "Failed to clone repository" \in Range(gh_out)
           /\ "    stderr" \in Range(gh_out)

\* C18: `gh init` outside a git repository (rev-parse exits non-zero) ends by
\* raising the error that tells the user no git repository was found, before
\* anything else happens: no prompt, no README.md, LICENSE or .gitignore
\* written, no git add, no git commit.
C18_NoRepositoryAbortsCleanly ==
    /\ GhDid("git rev-parse", <<"exit 128">>) =>
           /\ gh_pc = "raised"
           /\ gh_did = <<Did("gh", <<"init">>), Did("git rev-parse", <<"exit 128">>),
                         Did("raise", <<"FileNotFoundError",
                             "No git repository found. Please run this command in the git repository you want to set up.">>)>>
           /\ \A f \in DOMAIN worktree.files : worktree.files[f] # "new"
           /\ worktree.staged = {} /\ worktree.commits = 0
    /\ GhDid("gh", <<"init">>) /\ ~worktree.is_repo => gh_pc = "raised"

\* C18 witness: init has run outside a repository in a directory that holds a
\* README.md, and has ended with the error.
C18_Witness ==
    /\ ~worktree.is_repo /\ worktree.files["README.md"] = "old"
    /\ GhDid("git rev-parse", <<"exit 128">>)
    /\ gh_pc = "raised"

\* The repositories of an organization: its pages, concatenated in page order.
ListingOf(org) == extend_pages(gh_remote[org], Len(gh_remote[org]))

\* C21: every call of _get_all_repos that returns, returns the repositories of
\* the organization named by that call's org argument: the concatenation, in
\* page order, of the pages of that organization's listing.
C21_ReturnsListingOfOrg ==
    \A i \in 1..Len(repo_calls) :
        ~repo_calls[i].raised => repo_calls[i].returned = ListingOf(repo_calls[i].org)

\* The call just made, in a step that makes one.
CallMade == Len(repo_calls') = Len(repo_calls) + 1
NewCall == repo_calls'[Len(repo_calls')]

\* C22: a call in which a page request fails raises and leaves the cache
\* exactly as it was, with nothing of the pages already read in it; the call
\* after it requests the listing again from the first page, and when it
\* succeeds returns the whole listing.
C22_FailedPageLeavesCache ==
    /\ [][CallMade /\ NewCall.raised =>
              /\ repo_list' = repo_list
              /\ ~NewCall.wrote
              /\ is_falsy(repo_list')]_vars
    /\ [](\A i \in 1..Len(repo_calls) - 1 :
              repo_calls[i].raised =>
                  /\ repo_calls[i + 1].requests >= 1
                  /\ ~repo_calls[i + 1].raised =>
                         /\ repo_calls[i + 1].requests = Len(gh_remote[repo_calls[i + 1].org])
                         /\ repo_calls[i + 1].returned = ListingOf(repo_calls[i + 1].org))

\* C22 witness: a call failed on its second page, after the first page had
\* been read, and the next call for the same organization fetched both pages.
C22_Witness ==
    /\ Len(repo_calls) >= 2
    /\ repo_calls[1].raised /\ repo_calls[1].requests = 2
    /\ repo_calls[2].org = repo_calls[1].org
    /\ ~repo_calls[2].raised /\ repo_calls[2].requests = 2
    /\ Len(repo_calls[2].returned) = 2
    /\ repo_list = [none |-> FALSE, repos |-> repo_calls[2].returned]

\* What a step of `gh togprot` added to the subprocesses run.
Toggled == Len(togprot_did') > Len(togprot_did)
FreshDid == SubSeq(togprot_did', Len(togprot_did) + 1, Len(togprot_did'))
FreshOut == SubSeq(togprot_out', Len(togprot_out) + 1, Len(togprot_out'))
IsSetUrl(d) == d.op = "git remote set-url origin"
SetUrlOk(d) == IsSetUrl(d) /\ d.arg[1] = "exit 0"
Supported(url) == url # <<>> /\ url[1] \in {https_prefix, ssh_prefix}
OtherPrefix(prefix) == IF prefix = https_prefix THEN ssh_prefix ELSE https_prefix
\* The positions of the runs whose set-url succeeded, and the URL such a run
\* read from git and the URL it set.
Switches == {i \in DOMAIN togprot_did : SetUrlOk(togprot_did[i])}
UrlRead(i) == strip(Tail(togprot_did[i - 1].arg))
UrlSet(i) == Tail(togprot_did[i].arg)

\* C23: on a remote whose URL begins with one of the two prefixes, a run of
\* togprot whose set-url succeeds changes only the leading prefix of the URL,
\* and two such runs in a row restore the URL the first one read.
C23_ToggleIsInvolution ==
    /\ [][Toggled /\ (\E i \in DOMAIN FreshDid : SetUrlOk(FreshDid[i])) =>
              /\ Supported(origin.url)
              /\ origin'.url = <<OtherPrefix(origin.url[1])>> \o Tail(origin.url)]_vars
    /\ [](\A i, j \in Switches :
              i < j /\ (\A k \in Switches : ~(i < k /\ k < j)) => UrlSet(j) = UrlRead(i))

\* C24: when `git remote get-url origin` exits non-zero, or the URL begins with
\* neither prefix, a run of togprot prints an error, runs no
\* `git remote set-url`, and leaves the URL of the remote as it was.
C24_UnsupportedLeftAlone ==
    [][Toggled /\ togprot_out' # togprot_out /\ (~origin.exists \/ ~Supported(origin.url)) =>
          /\ origin' = origin
          /\ \A i \in DOMAIN FreshDid : ~IsSetUrl(FreshDid[i])
          /\ FreshOut = IF origin.exists
                         THEN <<"Unsupported URL format.">>
                         ELSE <<"Failed to get the remote URL. Make sure you are in a github repo.">>]_vars

\* C24 witness: togprot has run on a remote whose URL holds a prefix, but not
\* at its start, and has reported the format as unsupported.
C24_Witness ==
    /\ origin.exists /\ ~Supported(origin.url) /\ contains(origin.url, https_prefix)
    /\ "Unsupported URL format." \in Range(togprot_out)
    /\ togprot_did = <<Did("gh", <<"togprot">>),
                       Did("git remote get-url origin", <<"exit 0">> \o origin.url \o <<"\n">>)>>

\* C25: `gh init` overwrites a README.md that exists only after the user has
\* answered yes to the question; after a no, README.md is as it was, the
\* README setup is reported as skipped, and the commit step does not stage
\* README.md.
C25_ReadmeOverwriteConfirmed ==
    /\ [][worktree.files["README.md"] = "old" /\ worktree'.files["README.md"] = "new" =>
              Did("click.confirm", <<"README.md already exists", "y">>) \in Range(gh_did')]_vars
    /\ [](GhDid("click.confirm", <<"README.md already exists", "n">>) =>
              /\ worktree.files["README.md"] = "old"
              /\ "Skipping README setup." \in Range(gh_out)
              /\ "README.md created successfully." \notin Range(gh_out)
              /\ ~GhDid("git add", <<"README.md">>)
              /\ "README.md" \notin worktree.staged)

\* C25 witness: the user declined to overwrite README.md, had a LICENSE
\* written, and confirmed the commit, which staged the LICENSE and failed, so
\* that what was staged is still in the index.
C25_Witness ==
    /\ GhDid("click.confirm", <<"README.md already exists", "n">>)
    /\ GhDid("click.confirm", <<"commit these changes", "y">>)
    /\ GhDid("git commit", <<"exit 1">>)
    /\ worktree.staged = {"LICENSE"}
    /\ worktree.files["README.md"] = "old"

\* What a step of `plugins init` added to what it did and printed, and the
\* name it was run with.
Initialized == Len(newplugin_did') > Len(newplugin_did)
FreshInit == SubSeq(newplugin_did', Len(newplugin_did) + 1, Len(newplugin_did'))
FreshInitOut == SubSeq(newplugin_out', Len(newplugin_out) + 1, Len(newplugin_out'))
InitName == newplugin_did'[Len(newplugin_did) + 1].arg[1]

\* C26: `plugins init <name>` on a path that holds efr-<name> already gets
\* FileExistsError from create_new_plugin_project, reports the error and
\* returns, and nothing under the path is created or modified.
C26_ExistingProjectKept ==
    [][Initialized /\ plugin_parent.exists
          /\ plugin_dir_name(InitName) \in DOMAIN plugin_parent.kids =>
          /\ plugin_parent' = plugin_parent
          /\ FreshInit = <<Did("plugins init", <<InitName>>),
                           Did("click.prompt", <<"description">>),
                           Did("except", <<"FileExistsError">>),
                           Did("ended", <<"returned">>)>>
          /\ FreshInitOut = <<"Error: Directory already exists in">>]_vars

\* C26 witness: init ran for a name whose directory held a README.md only,
\* reported the error, and the directory still holds just that file.
C26_Witness ==
    /\ plugin_parent.exists
    /\ plugin_dir_name("awesome") \in DOMAIN plugin_parent.kids
    /\ DOMAIN plugin_parent.kids[plugin_dir_name("awesome")] = {<<"README.md">>}
    /\ plugin_parent.kids[plugin_dir_name("awesome")][<<"README.md">>] = "old"
    /\ newplugin_did = <<Did("plugins init", <<"awesome">>),
                         Did("click.prompt", <<"description">>),
                         Did("except", <<"FileExistsError">>),
                         Did("ended", <<"returned">>)>>
    /\ newplugin_out = <<"Error: Directory already exists in">>

\* `motorgo boards install` has ended: it returned or an exception left it.
BoardsEnded == boards_pc \in {"returned", "done", "raised"}

InIndex == boards_args.board_name \in {board_index[i].identifier : i \in DOMAIN board_index}

\* C28: `motorgo boards install --board-name N` changes a toolchain only when
\* N is the identifier of a board of the fetched index and the source tree
\* was obtained, from the custom path or by a clone that succeeded; for an
\* unknown identifier it returns before any clone; after a failed clone
\* nothing is copied.
C28_CopiesOnlyKnownBoardFromSource ==
    /\ [][packages' # packages \/ platforms' # platforms \/ Len(calls') > Len(calls) =>
              /\ "requests.get" \in Range(boards_did)
              /\ InIndex
              /\ boards_args.custom_board_path \/ "git clone" \in Range(boards_did)]_vars
    /\ [](boards_pc # "idle" /\ "requests.get" \in Range(boards_did)
              /\ ~InIndex =>
              /\ boards_pc = "returned"
              /\ boards_did = <<"requests.get">>
              /\ temp_dir = "none" /\ calls = <<>>)
    /\ []("git clone failed" \in Range(boards_did) => calls = <<>>)

\* C28 witness: the clone failed, board_install.install ran on the empty
\* directory and returned, and the command ended with no copy made, in a
\* toolchain that has a framework and a platform to copy into.
C28_Witness ==
    /\ boards_did = <<"requests.get", "TemporaryDirectory", "git clone failed",
                      "board_install.install", "temp_dir.cleanup">>
    /\ boards_pc = "done" /\ pc = "returned"
    /\ calls = <<>>
    /\ Names(packages) # {} /\ Names(platforms) # {}

\* C29: without --all, when the framework prompt comes back with nothing
\* selected or cancelled, or no framework version is installed, install skips
\* the framework copy without an error: it goes on, with no version to copy
\* to, towards the platform selection.
C29_NoSelectionSkipsFramework ==
    [][/\ pc = "idle" /\ pc' # "idle" /\ SourceOK /\ ~all
       /\ framework_versions'.state = "ok"
       /\ \/ framework_versions'.keys = <<>>
          \/ answers'.framework.cancelled
          \/ answers'.framework.picked = {}
       => /\ pc' = "framework_copy"
          /\ versions' = <<>>]_vars

\* The order in which a scan goes through the children: the bare <pkg>
\* directory first, if there, then what glob yielded.
Processed(dir, pkg, globbed) ==
    IF <<pkg>> \in Names(dir) THEN <<<<pkg>>>> \o globbed ELSE globbed
\* The child with the given label that comes last in that order.
LastWithLabel(dirs, k) ==
    dirs[CHOOSE i \in DOMAIN dirs :
             /\ version_label(dirs[i]) = k
             /\ \A j \in DOMAIN dirs : version_label(dirs[j]) = k => j <= i]
UniqueByLabel(r, dir, pkg) ==
    r.state = "ok" =>
        /\ NoRepeatedKey(r)
        /\ \E globbed \in Orders(glob(dir, pkg)) :
               LET dirs == Processed(dir, pkg, globbed) IN
               /\ KeySet(r) = {version_label(dirs[i]) : i \in DOMAIN dirs}
               /\ \A k \in KeySet(r) : r.val[k] = LastWithLabel(dirs, k)
        /\ (<<pkg>> \in Names(dir) /\ \E n \in glob(dir, pkg) : version_label(n) = <<"latest">>)
               => r.val[<<"latest">>] \in glob(dir, pkg)

\* C30: the result of a scan has one entry per version label; when several
\* children yield the same label the entry is the child processed last, and
\* since the bare <pkg> directory is processed first, a child named with "@"
\* that yields "latest" takes the entry from it.
C30_UniqueByLabelLastWins ==
    /\ UniqueByLabel(platform_versions, platforms, PLATFORM_NAME)
    /\ UniqueByLabel(framework_versions, packages, FRAMEWORK_NAME)

\* C30 witness: the platforms directory holds <pkg> and <pkg>@latest, the scan
\* has run, and "latest" is <pkg>@latest.
C30_Witness ==
    /\ platform_versions.state = "ok"
    /\ {<<PLATFORM_NAME>>, <<PLATFORM_NAME, "@", "latest">>} \subseteq Names(platforms)
    /\ platform_versions.val[<<"latest">>] = <<PLATFORM_NAME, "@", "latest">>

====
